---------------------------- MODULE Spec2Model ----------------------------
(***************************************************************************)
(* A model of the MAX assistant core: the capability gateway               *)
(* (tools/tool_executor.py), the memory store (memory/memory.py) and the   *)
(* reasoning loop (agent.py), the skill registry, the three adapters and   *)
(* the files skill.                                                        *)
(*                                                                         *)
(* Twelve specifications share the variables:                              *)
(*   SpecExec   callers drive ToolExecutor.execute directly                *)
(*   SpecMem    callers drive MemoryStore directly                         *)
(*   SpecAgent  MAXAgent.process_message drives both, over long sessions   *)
(*   SpecHost   the host boots the agent and sends it turns, the           *)
(*              completion backend answering in every shape                *)
(*   SpecRegistry  discover_skills registers the classes of skills/        *)
(*   SpecIface  an adapter's users send turns and commands and answer      *)
(*              its confirmation prompts                                   *)
(*   SpecFiles  the file operations are called with any path               *)
(*   SpecTelegram  Telegram users send messages and commands               *)
(*   SpecStartup   main() runs from the settings it read                   *)
(*   SpecWindow    one turn whose transcript passes the message window     *)
(*   SpecSession   an adapter's session over turns that return or raise    *)
(*   SpecShared    two users' turns on the one agent, the second entered   *)
(*                 while the first is suspended                            *)
(***************************************************************************)
EXTENDS Integers, Sequences, FiniteSets, TLC

VARIABLES
    \* ---- ToolExecutor / ToolRegistry
    registry,               \* ToolRegistry._tool_metadata (its domain is ToolRegistry.tools)
    confirm_before_action,  \* ToolExecutor.confirm_before_action
    confirm_callback,       \* ToolExecutor.confirm_callback: "none" or "wired"
    audit_log,              \* ToolExecutor.audit_log
    ex,                     \* the execute() call in flight: position and locals
    exec_calls,             \* number of execute() calls made by the direct callers
    \* ---- MemoryStore
    memories,               \* table memories: id -> row
    memories_fts,           \* table memories_fts: rowid -> row
    next_rowid,             \* AUTOINCREMENT sequence of table memories
    pending_store,          \* the store() call between its two INSERTs, or NoStore
    pending_delete,         \* the id of the delete() call between its two DELETEs, or 0
    clock,                  \* datetime.utcnow()
    mem_ret,                \* what the last MemoryStore call returned
    stored_user,            \* history: id -> the user_id store() was called with
    mem_calls,              \* number of MemoryStore calls made by the direct callers
    \* ---- MAXAgent
    max_context_tokens,     \* Settings.max_context_tokens
    conversation_history,   \* MAXAgent.conversation_history
    next_msg,               \* identity of the next Message object created
    turn,                   \* the process_message() call in flight: position and locals
    turns,                  \* number of process_message() calls started
    events,                 \* number of responses of the environment that were not plain
    initialized,            \* MAXAgent._initialized
    wired,                  \* the components of MAXAgent that are not None
    boot,                   \* the initialize() call in flight: its position
    boots,                  \* number of initialize() calls started
    \* ---- the interface layer
    interface,              \* Settings.interface: the adapter built by main()
    user_response,          \* what the user answered to the confirmation prompt
    query_ret,              \* what the last query of the interface layer returned
    \* ---- ToolRegistry.discover_skills
    tools,                  \* ToolRegistry.tools: qualified name -> implementing class
    skills,                 \* ToolRegistry.skills: skill name -> class of the instance
    loaded,                 \* history: the skill classes registered so far, in order
    \* ---- FilesSkill
    fs_call,                \* the last file operation: its path and what _safe_path did
    \* ---- the host: main(), Settings and the handlers of the adapters
    sent,                   \* the messages the last completion call was given
    owners,                 \* history: id of a Message -> user_id of the turn that made it
    turn_b,                 \* a second process_message() call in flight on the same agent
    allowed_users,          \* Settings.telegram_allowed_users
    tg,                     \* the last update a Telegram handler handled, and its reply
    startup,                \* main(): its position and the Settings it loaded
    session                 \* the adapter's loop: whether it runs, and its last reply

exec_vars  == <<registry, confirm_before_action, confirm_callback, audit_log, ex>>
mem_vars   == <<memories, memories_fts, next_rowid, pending_store, pending_delete,
                clock, mem_ret, stored_user>>
agent_vars == <<max_context_tokens, conversation_history, next_msg, turn>>
boot_vars  == <<initialized, wired, boot, boots>>
iface_vars == <<interface, user_response, query_ret>>
skill_vars == <<tools, skills, loaded>>
ext_vars   == <<sent, owners, turn_b, allowed_users, tg, startup, session>>
vars == <<exec_vars, mem_vars, agent_vars, exec_calls, mem_calls, turns, events,
          boot_vars, iface_vars, skill_vars, fs_call,
        ext_vars>>

(***************************************************************************)
(* Bounds of the model.                                                    *)
(***************************************************************************)
MaxExecCalls == 3      \* execute() calls of the direct callers (SpecExec)
MaxMemCalls  == 3      \* MemoryStore calls of the direct callers (SpecMem)
MaxClock     == 1      \* distinct readings of the clock
MaxTurns     == 2      \* process_message() calls (SpecAgent)
MaxEvents    == 1      \* responses of the environment that are not the plain one (SpecAgent)
MaxBoots     == 2      \* initialize() calls (SpecHost)
MaxHostTurns == 2      \* process_message() calls (SpecHost)
MaxSurprises == 2      \* responses of the environment that are not the plain one (SpecHost)

Users == {"alice", "bob"}

Min(a, b) == IF a < b THEN a ELSE b

(***************************************************************************)
(* ToolRegistry                                                            *)
(***************************************************************************)
\* The actions of the skills: qualified name -> metadata, as registered by
\* discover_skills from the @skill_action decorations.
SkillActions ==
    [n \in {"files__read_file", "files__delete_file", "email__send_email"} |->
        CASE n = "files__read_file"   -> [skill |-> "files", confirm_required |-> FALSE]
          [] n = "files__delete_file" -> [skill |-> "files", confirm_required |-> TRUE]
          [] n = "email__send_email"  -> [skill |-> "email", confirm_required |-> TRUE]]

\* ToolRegistry.discover_skills with the given ENABLED_SKILLS.
discover_skills(enabled) ==
    [n \in {m \in DOMAIN SkillActions : SkillActions[m].skill \in enabled} |->
        SkillActions[n]]

\* Names a caller (or the completion backend) may ask for: the registered ones
\* and one that no skill defines.
ToolNames == DOMAIN SkillActions \cup {"files__nope"}

\* ToolRegistry.requires_confirmation
requires_confirmation(tool_name) ==
    IF tool_name \in DOMAIN registry THEN registry[tool_name].confirm_required
    ELSE FALSE

\* The skill classes discover_skills may find in skills/: the two of
\* SkillActions, a plug-in that also calls itself "files", and two plug-ins that
\* set no name and so inherit BaseSkill.name. `actions` maps each method
\* decorated with @skill_action to its confirm_required.
SkillClasses ==
    { [cls |-> "FilesSkill", name |-> "files",
       actions |-> [read_file |-> FALSE, delete_file |-> TRUE]],
      [cls |-> "EmailSkill", name |-> "email", actions |-> [send_email |-> TRUE]],
      [cls |-> "QuickFiles", name |-> "files", actions |-> [delete_file |-> FALSE]],
      [cls |-> "NotesSkill", name |-> "base", actions |-> [save |-> FALSE]],
      [cls |-> "TodoSkill", name |-> "base", actions |-> [save |-> TRUE]] }

\* BaseSkill._discover_actions: the key of base.py:75.
qualified_name(skill_name, attr_name) == skill_name \o "__" \o attr_name

\* The keys of skill_instance._actions for an instance of class c.
action_names(c) == {qualified_name(c.name, a) : a \in DOMAIN c.actions}

\* The attribute behind a key of _actions.
attr_of(c, tool_name) ==
    CHOOSE a \in DOMAIN c.actions : qualified_name(c.name, a) = tool_name

\* The body of the loop of discover_skills for one class that is enabled and
\* whose constructor returns (tool_registry.py:64-76).
register_skill(c) ==
    /\ skills' = [n \in DOMAIN skills \cup {c.name} |->
                     IF n = c.name THEN c.cls ELSE skills[n]]
    /\ tools' = [n \in DOMAIN tools \cup action_names(c) |->
                    IF n \in action_names(c) THEN c.cls ELSE tools[n]]
    /\ registry' = [n \in DOMAIN registry \cup action_names(c) |->
                       IF n \in action_names(c)
                       THEN [skill |-> c.name,
                             confirm_required |-> c.actions[attr_of(c, n)]]
                       ELSE registry[n]]
    /\ loaded' = Append(loaded, c)

\* ToolRegistry.tools and ToolRegistry.skills next to the metadata that
\* discover_skills(enabled) left in `registry`.
RegistryInit ==
    /\ tools = [n \in DOMAIN registry |->
                  IF registry[n].skill = "files" THEN "FilesSkill" ELSE "EmailSkill"]
    /\ skills = [n \in {registry[m].skill : m \in DOMAIN registry} |->
                   IF n = "files" THEN "FilesSkill" ELSE "EmailSkill"]
    /\ loaded = <<>>

(***************************************************************************)
(* ToolExecutor                                                            *)
(***************************************************************************)
NoResult == [success |-> FALSE, result |-> "-", error |-> "-", cancelled |-> "absent",
             tool_name |-> "-"]

\* ToolExecutor._error_result: no "cancelled" key.
error_result(tool_name, error) ==
    [success |-> FALSE, result |-> "None", error |-> error, cancelled |-> "absent",
     tool_name |-> tool_name]

\* Variant: the denial returned without its cancelled key.
M_cancelled_result(tool_name) == error_result(tool_name, "Action cancelled by user")

\* The dict returned at tool_executor.py:63-69.
cancelled_result(tool_name) ==
    [success |-> FALSE, result |-> "None", error |-> "Action cancelled by user",
     cancelled |-> "true", tool_name |-> tool_name]

\* What the capability implementations return: the text "done" or the number 7.
Text(s) == [type |-> "str", s |-> s, n |-> 0]
Number(n) == [type |-> "int", s |-> "", n |-> n]
ToolValues == {Text("done"), Number(7)}

\* str(result) of tool_executor.py:90.
str(value) == IF value.type = "str" THEN value.s ELSE ToString(value.n)

\* The dict returned at tool_executor.py:88-94.
success_result(tool_name, value) ==
    [success |-> TRUE, result |-> str(value), error |-> "None", cancelled |-> "absent",
     tool_name |-> tool_name]

\* str(e) of the exception a capability implementation raised.
ExceptionMessage == "boom"

\* Variant: the failure logged as a success.
M_log_entry(tool_name, user_id, outcome) ==
    [tool |-> tool_name, user_id |-> user_id, success |-> TRUE, error |-> "absent"]

\* The audit entries of tool_executor.py:77-84 and 100-108; only the second has
\* an "error" key.
log_entry(tool_name, user_id, outcome) ==
    [tool |-> tool_name, user_id |-> user_id, success |-> outcome = "returns",
     error |-> IF outcome = "returns" THEN "absent" ELSE ExceptionMessage]

\* Variant: the entry put in front.
M_append(log, entry) == <<entry>> \o log

\* self.audit_log.append of tool_executor.py:85 and 100.
append(log, entry) == Append(log, entry)

\* Python's h[start:] for a list h.
slice_from(h, start) ==
    LET first == IF start < 0
                 THEN (IF Len(h) + start < 0 THEN 0 ELSE Len(h) + start)
                 ELSE Min(start, Len(h)) IN
    SubSeq(h, first + 1, Len(h))

\* ToolExecutor.get_audit_log (tool_executor.py:132-134).
get_audit_log(limit) == slice_from(audit_log, 0 - limit)

\* The locals of one execute() call: `answer` is what the confirmation function
\* returned to it, `confirmed` the local of tool_executor.py:61, `invoked` whether
\* the capability implementation was called (tool_executor.py:74), `outcome` and
\* `value` what that call did: it returned `value`, or it raised.
ExIdle == [pc |-> "idle", tool |-> "-", user |-> "-", answer |-> "unset",
           confirmed |-> "unset", invoked |-> FALSE, outcome |-> "unset",
           value |-> Text(""), result |-> NoResult]

\* The condition of tool_executor.py:60.
needs_confirmation(tool_name) ==
    confirm_before_action /\ requires_confirmation(tool_name)

\* Variant: approving when no callback is wired.
M_no_callback_answer == TRUE

\* What _request_confirmation returns when no callback is wired
\* (tool_executor.py:123-126).
no_callback_answer == FALSE

\* Variant: taking any answer of the callback for a yes.
M_callback_answer(outcome) == TRUE

\* What _request_confirmation returns when the wired callback returned `outcome`
\* (tool_executor.py:121).
callback_answer(outcome) == outcome = "yes"

\* Variant: the test of `if not confirmed` dropped.
M_after_confirmation(call, confirmed) ==
    [call EXCEPT !.pc = "running", !.invoked = TRUE,
                 !.confirmed = IF confirmed THEN "true" ELSE "false"]

\* execute() from `confirmed = ...` on (tool_executor.py:61-72).
after_confirmation(call, confirmed) ==
    IF confirmed
    THEN [call EXCEPT !.pc = "running", !.confirmed = "true", !.invoked = TRUE]
    ELSE [call EXCEPT !.pc = "returned", !.confirmed = "false",
                      !.result = cancelled_result(call.tool)]

\* Variant: the lookup's result not tested.
M_is_unknown(tool_name) == FALSE

\* The test of tool_executor.py:55-56.
is_unknown(tool_name) == tool_name \notin DOMAIN registry

\* The message of tool_executor.py:57.
unknown_tool(tool_name) == "Unknown tool: '" \o tool_name \o "'"

\* execute() up to its first suspension: the lookup, the confirmation test and,
\* with no callback wired, the whole of _request_confirmation
\* (tool_executor.py:55-72, 118-126). The value is the call's new position.
begin_call(tool_name, user_id) ==
    LET call == [ExIdle EXCEPT !.tool = tool_name, !.user = user_id] IN
    IF is_unknown(tool_name)
    THEN [call EXCEPT !.pc = "returned",
                      !.result = error_result(tool_name, unknown_tool(tool_name))]
    ELSE IF needs_confirmation(tool_name)
    THEN IF confirm_callback = "wired"
         THEN [call EXCEPT !.pc = "confirming"]
         ELSE after_confirmation(call, no_callback_answer)
    ELSE [call EXCEPT !.pc = "running", !.invoked = TRUE]

\* A caller enters ToolExecutor.execute.
execute_begin(tool_name, user_id) ==
    /\ ex.pc = "idle"
    /\ ex' = begin_call(tool_name, user_id)
    /\ UNCHANGED <<registry, confirm_before_action, confirm_callback, audit_log>>

\* The wired confirmation callback returns or raises (tool_executor.py:121);
\* an exception leaves execute() through lines 61 and 121, which no try encloses.
confirm_returns(outcome) ==
    /\ ex.pc = "confirming"
    /\ IF outcome = "raises"
       THEN ex' = [ex EXCEPT !.pc = "raised"]
       ELSE ex' = after_confirmation([ex EXCEPT !.answer = outcome],
                                     callback_answer(outcome))
    /\ UNCHANGED <<registry, confirm_before_action, confirm_callback, audit_log>>

\* The capability implementation returns `value` (or raises an Exception):
\* tool_executor.py:72-110.
tool_returns(outcome, value) ==
    /\ ex.pc = "running"
    /\ audit_log' = append(audit_log, log_entry(ex.tool, ex.user, outcome))
    /\ ex' = [ex EXCEPT !.pc = "returned", !.outcome = outcome,
                        !.value = IF outcome = "returns" THEN value ELSE @,
                        !.result = IF outcome = "returns"
                                   THEN success_result(ex.tool, value)
                                   ELSE error_result(ex.tool, ExceptionMessage)]
    /\ UNCHANGED <<registry, confirm_before_action, confirm_callback>>

\* ToolExecutor.set_confirm_callback, called by the interface layer.
set_confirm_callback ==
    /\ confirm_callback = "none"
    /\ confirm_callback' = "wired"
    /\ UNCHANGED <<registry, confirm_before_action, audit_log, ex>>

ExecInit ==
    /\ registry \in {discover_skills({"files"}), discover_skills({"files", "email"})}
    /\ confirm_before_action \in BOOLEAN
    /\ confirm_callback = "none"
    /\ audit_log = <<>>
    /\ ex = ExIdle
    /\ exec_calls = 0

(***************************************************************************)
(* MemoryStore                                                             *)
(***************************************************************************)
\* A text is modelled by what the store reads of it: its FTS5 tokens.
Words    == {"tea", "code"}
Contents == {{"tea"}, {"tea", "code"}}
Tags     == {"context_summary", "pref"}
Limits   == {1, 2}
\* The tags arguments the direct callers pass to store and to search.
TagArgs  == {{}, {"pref"}}

\* A query is modelled by the length of query.strip(), the terms FTS5 parses
\* from it, and whether FTS5 can parse it at all ("What's 2+2?" it cannot).
Queries ==
    { [len |-> 2,  terms |-> {},              valid |-> TRUE],
      [len |-> 3,  terms |-> {"tea"},         valid |-> TRUE],
      [len |-> 4,  terms |-> {"code"},        valid |-> TRUE],
      [len |-> 11, terms |-> {},              valid |-> FALSE] }

NoStore == [id |-> 0, content |-> {}, user_id |-> "-"]
NoRet   == [op |-> "none", user |-> "-", path |-> "-", raised |-> FALSE, rows |-> <<>>,
            limit |-> 0, terms |-> {}, tags |-> {}]

\* The sequences that list every element of S once.
Orderings(S) ==
    {s \in [1..Cardinality(S) -> S] : \A i, j \in 1..Cardinality(S) : i # j => s[i] # s[j]}

\* The first n elements of s (SQL LIMIT n).
Limit(s, n) == SubSeq(s, 1, Min(n, Len(s)))

\* f with x mapped to v, x added to the domain if absent.
Put(f, x, v) == [y \in DOMAIN f \cup {x} |-> IF y = x THEN v ELSE f[y]]

\* f without x.
Drop(f, x) == [y \in DOMAIN f \ {x} |-> f[y]]

\* MemoryStore._row_to_memory: the Memory built from row `id` as it is read.
row_to_memory(id) ==
    [id |-> id, content |-> memories[id].content, user_id |-> memories[id].user_id,
     tags |-> memories[id].tags, created_at |-> memories[id].created_at,
     accessed_at |-> memories[id].accessed_at,
     access_count |-> memories[id].access_count]

\* FTS5: a document matches when it holds every term of the query.
fts_match(content, query) == query.terms \subseteq content

\* Variant: the SELECT without its user_id condition.
M_fts_ids(query, user_id) ==
    {id \in DOMAIN memories \cap DOMAIN memories_fts :
        fts_match(memories_fts[id].content, query)}

\* The ids selected by the SELECT of memory.py:113-123, before ORDER BY / LIMIT.
fts_ids(query, user_id) ==
    {id \in DOMAIN memories \cap DOMAIN memories_fts :
        /\ fts_match(memories_fts[id].content, query)
        /\ memories[id].user_id = user_id}

\* The ids selected by the SELECT of memory.py:142-151.
recent_ids(user_id) == {id \in DOMAIN memories : memories[id].user_id = user_id}

\* ORDER BY rank: the bm25 rank is the search engine's; any order of the matches.
rank_orders(ids) == Orderings(ids)

\* Variant: ascending.
M_recent_orders(ids) ==
    {s \in Orderings(ids) :
        \A i, j \in 1..Len(s) :
            i < j => memories[s[i]].accessed_at <= memories[s[j]].accessed_at}

\* ORDER BY accessed_at DESC (ties in any order).
recent_orders(ids) ==
    {s \in Orderings(ids) :
        \A i, j \in 1..Len(s) :
            i < j => memories[s[i]].accessed_at >= memories[s[j]].accessed_at}

\* ORDER BY created_at DESC (ties in any order).
created_orders(ids) ==
    {s \in Orderings(ids) :
        \A i, j \in 1..Len(s) :
            i < j => memories[s[i]].created_at >= memories[s[j]].created_at}

\* The tag filter of memory.py:128-132 on a list of ids.
tag_filter(s, tags) ==
    IF tags = {} THEN s
    ELSE LET Keep(id) == memories[id].tags \cap tags # {} IN SelectSeq(s, Keep)

\* Variant: the counter counted down.
M_touch(mem, id, now) ==
    IF id \in DOMAIN mem
    THEN [mem EXCEPT ![id].accessed_at = now,
                     ![id].access_count = mem[id].access_count - 1]
    ELSE mem

\* MemoryStore._touch on table contents mem.
touch(mem, id, now) ==
    IF id \in DOMAIN mem
    THEN [mem EXCEPT ![id].accessed_at = now,
                     ![id].access_count = mem[id].access_count + 1]
    ELSE mem

\* _touch of every id of s, in order, all at `now`.
RECURSIVE touch_all(_, _, _)
touch_all(mem, s, now) ==
    IF s = <<>> THEN mem
    ELSE touch_all(touch(mem, Head(s), now), Tail(s), now)

\* The readings datetime.utcnow() may give: not before the last reading.
Readings == clock..Min(clock + 1, MaxClock)

\* MemoryStore.store up to the first INSERT (memory.py:76-86); `now` is what
\* datetime.utcnow() reads.
store_insert(content, user_id, tags, now) ==
    /\ pending_store = NoStore
    /\ clock' = now
    /\ memories' = Put(memories, next_rowid,
           [content |-> content, user_id |-> user_id, tags |-> tags,
            created_at |-> now, accessed_at |-> now, access_count |-> 0])
    /\ stored_user' = Put(stored_user, next_rowid, user_id)
    /\ pending_store' = [id |-> next_rowid, content |-> content, user_id |-> user_id]
    /\ next_rowid' = next_rowid + 1
    /\ UNCHANGED <<memories_fts, mem_ret, pending_delete>>

\* MemoryStore.store from the second INSERT to its return (memory.py:88-96).
store_index ==
    /\ pending_store # NoStore
    /\ memories_fts' = Put(memories_fts, pending_store.id,
           [content |-> pending_store.content, user_id |-> pending_store.user_id])
    /\ mem_ret' = [NoRet EXCEPT !.op = "store", !.user = pending_store.user_id,
                                !.rows = <<pending_store.id>>]
    /\ pending_store' = NoStore
    /\ UNCHANGED <<memories, next_rowid, clock, stored_user, pending_delete>>

\* MemoryStore.store when its first INSERT raises (memory.py:79-85), as it does
\* for a content of None (content is NOT NULL): nothing is written.
store_insert_raises ==
    /\ pending_store = NoStore
    /\ mem_ret' = [NoRet EXCEPT !.op = "store", !.raised = TRUE]
    /\ UNCHANGED <<memories, memories_fts, next_rowid, pending_store, clock,
                   stored_user, pending_delete>>

\* MemoryStore.store when its second INSERT raises (memory.py:89-92): store has
\* no rollback, so the row of the first INSERT stays in the connection's open
\* transaction, where every later statement of this connection reads it.
store_index_raises ==
    /\ pending_store # NoStore
    /\ pending_store' = NoStore
    /\ mem_ret' = [NoRet EXCEPT !.op = "store", !.user = pending_store.user_id,
                                !.raised = TRUE]
    /\ UNCHANGED <<memories, memories_fts, next_rowid, clock, stored_user,
                   pending_delete>>

\* MemoryStore.search (memory.py:98-138), _get_recent included; `now` is what
\* datetime.utcnow() reads in _touch.
search(query, user_id, limit, tags, now) ==
    /\ IF query.len < 3
       THEN \E s \in recent_orders(recent_ids(user_id)) :
               /\ mem_ret' = [NoRet EXCEPT !.op = "search", !.user = user_id, !.limit = limit,
                                 !.path = "recent",
                                 !.rows = [i \in 1..Len(Limit(s, limit)) |->
                                              row_to_memory(s[i])]]
               /\ UNCHANGED <<memories, clock>>
       ELSE IF ~query.valid
       THEN /\ mem_ret' = [NoRet EXCEPT !.op = "search", !.user = user_id, !.limit = limit,
                                        !.path = "fts", !.raised = TRUE]
            /\ UNCHANGED <<memories, clock>>
       ELSE \E s \in rank_orders(fts_ids(query, user_id)) :
               LET found == tag_filter(Limit(s, limit), tags) IN
               /\ mem_ret' = [NoRet EXCEPT !.op = "search", !.user = user_id, !.limit = limit,
                                 !.path = "fts", !.terms = query.terms,
                                 !.tags = tags,
                                 !.rows = [i \in 1..Len(found) |->
                                              row_to_memory(found[i])]]
               /\ memories' = touch_all(memories, found, now)
               /\ clock' = IF found = <<>> THEN clock ELSE now
    /\ UNCHANGED <<memories_fts, next_rowid, pending_store, stored_user,
                   pending_delete>>

\* MemoryStore.get_all (memory.py:160-170).
get_all(user_id) ==
    /\ \E s \in created_orders(recent_ids(user_id)) :
          mem_ret' = [NoRet EXCEPT !.op = "get_all", !.user = user_id,
                                   !.rows = [i \in 1..Len(s) |-> row_to_memory(s[i])]]
    /\ UNCHANGED <<memories, memories_fts, next_rowid, pending_store, clock,
                   stored_user, pending_delete>>

\* Variant: the statement deletes nothing.
M_delete_rows(mem, memory_id) == mem

\* DELETE FROM memories WHERE id = ? (memory.py:156) on table contents mem.
delete_rows(mem, memory_id) == Drop(mem, memory_id)

\* MemoryStore.delete up to the end of its first DELETE (memory.py:156).
delete_begin(memory_id) ==
    /\ pending_delete = 0
    /\ memories' = delete_rows(memories, memory_id)
    /\ pending_delete' = memory_id
    /\ UNCHANGED <<memories_fts, next_rowid, pending_store, clock, mem_ret,
                   stored_user>>

\* MemoryStore.delete from its second DELETE to its return (memory.py:157-158).
delete_index ==
    /\ pending_delete # 0
    /\ memories_fts' = Drop(memories_fts, pending_delete)
    /\ mem_ret' = [NoRet EXCEPT !.op = "delete", !.rows = <<pending_delete>>]
    /\ pending_delete' = 0
    /\ UNCHANGED <<memories, next_rowid, pending_store, clock, stored_user>>

MemInit ==
    /\ memories = << >>
    /\ memories_fts = << >>
    /\ next_rowid = 1
    /\ pending_store = NoStore
    /\ pending_delete = 0
    /\ clock = 0
    /\ mem_ret = NoRet
    /\ stored_user = << >>
    /\ mem_calls = 0

(***************************************************************************)
(* MAXAgent                                                                *)
(***************************************************************************)
MAX_ITERATIONS == 15

\* Message objects. `id` is the identity of the object, `chars` is
\* len(content): the only thing _should_compact reads of the content; `call`
\* and `result` are what the content of a tool call entry and of a tool result
\* entry holds.
Msg(role, kind, chars, id) ==
    [role |-> role, kind |-> kind, chars |-> chars, id |-> id, call |-> "-",
     result |-> NoResult]

\* len(content) of the messages the agent itself writes: the tool call JSON, the
\* tool result JSON, a final answer, the apology of agent.py:213 and a summary
\* behind the prefix of agent.py:327.
content_chars(kind) ==
    CASE kind = "tool_call"   -> 60
      [] kind = "tool_result" -> 104
      [] kind = "answer"      -> 20
      [] kind = "apology"     -> 58
      [] kind = "summary"     -> 19 + 40

\* What a caller sends: the user, len(user_input) and user_input as a query.
Requests ==
    { [user_id |-> "alice", chars |-> 3,
       query |-> [len |-> 2, terms |-> {}, valid |-> TRUE]],
      [user_id |-> "bob", chars |-> 3,
       query |-> [len |-> 3, terms |-> {"tea"}, valid |-> TRUE]],
      [user_id |-> "alice", chars |-> 11,
       query |-> [len |-> 11, terms |-> {}, valid |-> FALSE]] }

NoRequest == [user_id |-> "-", chars |-> 0,
              query |-> [len |-> 0, terms |-> {}, valid |-> TRUE]]

\* The locals of one process_message() call. `prior` and `at_compact` are
\* history: the transcript when the call started and when _compact_context
\* was entered; `compact` is how far _compact_context got. History too:
\* `error` is what the call raised, `last_response` the last completion
\* response, `iter_calls` the tool calls of the current iteration, `asked` the
\* number of tool calls requested so far, `started` the number of execute()
\* calls made, `denied` the number of them that came back with confirmation
\* refused, `memorize` the outcome of the memorize check, `rowid0` and `msg0`
\* the next id of table memories and of the messages when the call started.
TurnIdle ==
    [pc |-> "idle", request |-> NoRequest, iterations |-> 0, llm_calls |-> 0,
     simple_calls |-> 0, requested |-> 0, tool_calls |-> <<>>,
     actions_taken |-> <<>>, relevant_memories |-> <<>>,
     final_response |-> "unset", old_messages |-> <<>>, recent_messages |-> <<>>,
     prior |-> <<>>, at_compact |-> <<>>, compact |-> "none",
     error |-> "none", last_response |-> "unset", iter_calls |-> <<>>,
     asked |-> 0, started |-> 0, denied |-> 0, memorize |-> "unset", rowid0 |-> 0,
     msg0 |-> 0]

\* Variant: the call entry written without the name of the call.
M_call_entry(tool_name, id) ==
    Msg("assistant", "tool_call", content_chars("tool_call"), id)

\* The Message of agent.py:201-205: json.dumps(tool_call).
call_entry(tool_name, id) ==
    [Msg("assistant", "tool_call", content_chars("tool_call"), id)
        EXCEPT !.call = tool_name]

\* Variant: the result written without its cancelled key.
M_result_entry(tool_result, id) ==
    [Msg("tool_result", "tool_result", content_chars("tool_result"), id)
        EXCEPT !.call = tool_result.tool_name,
               !.result = [tool_result EXCEPT !.cancelled = "absent"]]

\* The Message of agent.py:206-210: json.dumps(tool_result).
result_entry(tool_result, id) ==
    [Msg("tool_result", "tool_result", content_chars("tool_result"), id)
        EXCEPT !.call = tool_result.tool_name, !.result = tool_result]

\* Variant: the result appended before the call.
M_tool_entries(tool_result, id) ==
    << result_entry(tool_result, id), call_entry(tool_result.tool_name, id + 1) >>

\* The two entries appended for one executed call (agent.py:200-210).
tool_entries(tool_result, id) ==
    << call_entry(tool_result.tool_name, id), result_entry(tool_result, id + 1) >>

RECURSIVE SumChars(_)
SumChars(h) == IF h = <<>> THEN 0 ELSE Head(h).chars + SumChars(Tail(h))

\* MAXAgent._should_compact: total_chars / 4 / limit > 0.85, in integers.
should_compact(h) == 100 * SumChars(h) > 85 * 4 * max_context_tokens

\* h[-n:] and h[:-n] of Python, n > 0.
LastN(h, n) == SubSeq(h, Len(h) - Min(n, Len(h)) + 1, Len(h))
ButLastN(h, n) == SubSeq(h, 1, Len(h) - Min(n, Len(h)))

\* Variant: the test off by one.
M_compact_returns_early(h) == Len(h) < 10

\* The test of agent.py:310.
compact_returns_early(h) == Len(h) <= 10

\* Variant: one entry fewer kept.
M_recent_of(h) == LastN(h, 9)

\* recent_messages of agent.py:314.
recent_of(h) == LastN(h, 10)

\* old_messages of agent.py:313.
old_of(h) == ButLastN(h, 10)

\* Variant: one iteration more.
M_loop_continues(iterations) == iterations <= MAX_ITERATIONS

\* The while condition of agent.py:170.
loop_continues(iterations) == iterations < MAX_ITERATIONS

\* process_message from the top of the while loop to its next suspension:
\* either _call_llm (agent.py:170-175) or, the loop left, the _call_llm_simple
\* of _maybe_memorize (agent.py:212-222, 369), the final answer appended.
\* The value is the new locals, transcript and next message identity.
loop_top(t, h, n) ==
    IF t.final_response = "unset" /\ loop_continues(t.iterations)
    THEN [turn |-> [t EXCEPT !.pc = "llm", !.iterations = @ + 1, !.llm_calls = @ + 1],
          history |-> h, next |-> n]
    ELSE LET final == IF t.final_response \in {"unset", "empty"}
                      THEN "apology" ELSE "answer" IN
         [turn |-> [t EXCEPT !.pc = "memorize", !.simple_calls = @ + 1,
                             !.final_response = final],
          history |-> Append(h, Msg("assistant", final, content_chars(final), n)),
          next |-> n + 1]

\* process_message up to its first suspension after memory.search returned
\* (agent.py:148-175 and 304-323): the user message is appended, _should_compact
\* is evaluated and _compact_context is entered.
after_search(t, h, n) ==
    LET h1 == Append(h, Msg("user", "user", t.request.chars, n))
        t1 == [t EXCEPT !.prior = h] IN
    IF should_compact(h1)
    THEN IF compact_returns_early(h1)
         THEN loop_top([t1 EXCEPT !.at_compact = h1, !.compact = "skipped"], h1, n + 1)
         ELSE [turn |-> [t1 EXCEPT !.pc = "summarize", !.at_compact = h1,
                                   !.compact = "pending", !.simple_calls = @ + 1,
                                   !.old_messages = old_of(h1),
                                   !.recent_messages = recent_of(h1)],
               history |-> h1, next |-> n + 1]
    ELSE loop_top(t1, h1, n + 1)

\* Variant: the test reads self.memory instead of the flag.
M_not_initialized == "memory" \notin wired

\* The test of agent.py:136.
not_initialized == ~initialized

\* process_message is called before initialize() has set _initialized
\* (agent.py:136-137): it raises RuntimeError.
pm_not_initialized(request) ==
    /\ turn.pc = "idle"
    /\ not_initialized
    /\ turn' = [TurnIdle EXCEPT !.pc = "raised", !.request = request,
                                !.error = "not_initialized",
                                !.prior = conversation_history,
                                !.rowid0 = next_rowid, !.msg0 = next_msg]
    /\ UNCHANGED <<max_context_tokens, conversation_history, next_msg, exec_vars,
                   mem_vars>>

\* process_message is called (agent.py:126-146): memory.search runs to its end.
pm_start(request, now) ==
    /\ turn.pc = "idle"
    /\ ~not_initialized
    /\ search(request.query, request.user_id, 5, {}, now)
    /\ IF mem_ret'.raised
       THEN /\ turn' = [TurnIdle EXCEPT !.pc = "raised", !.request = request,
                                        !.error = "search",
                                        !.prior = conversation_history,
                                        !.rowid0 = next_rowid, !.msg0 = next_msg]
            /\ UNCHANGED <<conversation_history, next_msg>>
       ELSE LET t == [TurnIdle EXCEPT !.request = request, !.rowid0 = next_rowid, !.msg0 = next_msg,
                         !.relevant_memories =
                             [i \in 1..Len(mem_ret'.rows) |-> mem_ret'.rows[i].id]]
                r == after_search(t, conversation_history, next_msg) IN
            /\ turn' = r.turn
            /\ conversation_history' = r.history
            /\ next_msg' = r.next
    /\ UNCHANGED <<max_context_tokens, exec_vars>>

\* The _call_llm_simple of _compact_context returns a summary
\* (agent.py:323-335): the transcript is replaced and memory.store is entered.
pm_summary_returns(summary, now) ==
    /\ turn.pc = "summarize"
    /\ conversation_history' =
           <<Msg("assistant", "summary", content_chars("summary"), next_msg)>>
               \o turn.recent_messages
    /\ next_msg' = next_msg + 1
    /\ store_insert(summary, turn.request.user_id, {"context_summary"}, now)
    /\ turn' = [turn EXCEPT !.pc = "compact_store", !.compact = "replaced"]
    /\ UNCHANGED <<max_context_tokens, exec_vars>>

\* The _call_llm_simple of _compact_context returns None, the content of a
\* completion that holds no text (agent.py:354): the transcript is replaced
\* (agent.py:326-328), then the INSERT of memory.store raises and
\* process_message raises.
pm_summary_unstorable ==
    /\ turn.pc = "summarize"
    /\ conversation_history' =
           <<Msg("assistant", "summary", content_chars("summary"), next_msg)>>
               \o turn.recent_messages
    /\ next_msg' = next_msg + 1
    /\ store_insert_raises
    /\ turn' = [turn EXCEPT !.pc = "raised", !.compact = "replaced",
                            !.error = "store"]
    /\ UNCHANGED <<max_context_tokens, exec_vars>>

\* Variant: the transcript cut down to the recent messages before the summary
\* is asked for.
M_pm_summary_raises ==
    /\ turn.pc = "summarize"
    /\ turn' = [turn EXCEPT !.pc = "raised", !.compact = "failed",
                            !.error = "summary"]
    /\ conversation_history' = turn.recent_messages
    /\ UNCHANGED <<max_context_tokens, next_msg, exec_vars, mem_vars>>

\* The _call_llm_simple of _compact_context raises: process_message raises.
pm_summary_raises ==
    /\ turn.pc = "summarize"
    /\ turn' = [turn EXCEPT !.pc = "raised", !.compact = "failed",
                            !.error = "summary"]
    /\ UNCHANGED <<max_context_tokens, conversation_history, next_msg, exec_vars,
                   mem_vars>>

\* memory.store of _compact_context returns; the loop is entered.
pm_compact_stored ==
    /\ turn.pc = "compact_store"
    /\ store_index
    /\ LET r == loop_top(turn, conversation_history, next_msg) IN
       /\ turn' = r.turn
       /\ conversation_history' = r.history
       /\ next_msg' = r.next
    /\ UNCHANGED <<max_context_tokens, exec_vars>>

\* memory.store of _compact_context raises at its second INSERT:
\* process_message raises (agent.py:331 is in no try).
pm_compact_store_raises ==
    /\ turn.pc = "compact_store"
    /\ store_index_raises
    /\ turn' = [turn EXCEPT !.pc = "raised", !.error = "store"]
    /\ UNCHANGED <<max_context_tokens, conversation_history, next_msg, exec_vars>>

\* _call_llm returns a text that holds no tool calls (agent.py:175-183);
\* `text` is "answer" or, for the empty string, "empty".
pm_llm_answers(text) ==
    /\ turn.pc = "llm"
    /\ LET r == loop_top([turn EXCEPT !.final_response = text,
                                      !.last_response = text],
                         conversation_history, next_msg) IN
       /\ turn' = r.turn
       /\ conversation_history' = r.history
       /\ next_msg' = r.next
    /\ UNCHANGED <<max_context_tokens, exec_vars, mem_vars>>

\* The completion responses whose tool call payload is malformed: a text that
\* is no JSON, JSON that is no object, an object without the tool_calls key, and
\* objects whose tool_calls value is null, a string, a number, or a list of
\* values that are no objects.
Payloads ==
    {"not_json", "json_not_object", "object_without_calls", "calls_null",
     "calls_string", "calls_number", "calls_not_objects"}

\* What _extract_tool_calls and the loop over its value do with such a
\* response (agent.py:178-188): "no_calls" when the value is falsy, as the []
\* of the except branch and of the default are; "raises" when a truthy value is
\* iterated and .get is called on its items, or it cannot be iterated.
extract_tool_calls(payload) ==
    CASE payload \in {"not_json", "json_not_object"} -> "no_calls"
      [] payload \in {"object_without_calls", "calls_null"} -> "no_calls"
      [] payload \in {"calls_string", "calls_not_objects"} -> "raises"
      [] payload = "calls_number" -> "raises"

\* _call_llm returns a text whose tool call payload is malformed
\* (agent.py:175-188).
pm_llm_malformed(payload) ==
    /\ turn.pc = "llm"
    /\ IF extract_tool_calls(payload) = "no_calls"
       THEN LET r == loop_top([turn EXCEPT !.final_response = "answer",
                                           !.last_response = payload],
                              conversation_history, next_msg) IN
            /\ turn' = r.turn
            /\ conversation_history' = r.history
            /\ next_msg' = r.next
       ELSE /\ turn' = [turn EXCEPT !.pc = "raised", !.error = "payload",
                                    !.last_response = payload]
            /\ UNCHANGED <<conversation_history, next_msg>>
    /\ UNCHANGED <<max_context_tokens, exec_vars, mem_vars>>

\* _call_llm returns tool calls (agent.py:175-196): execute is entered for the
\* first of them.
pm_llm_requests(calls) ==
    /\ turn.pc = "llm"
    /\ ex.pc = "idle"
    /\ turn' = [turn EXCEPT !.pc = "executing", !.tool_calls = calls,
                            !.requested = @ + 1, !.last_response = "calls",
                            !.iter_calls = calls, !.asked = @ + Len(calls),
                            !.started = @ + 1]
    /\ ex' = begin_call(Head(calls), turn.request.user_id)
    /\ UNCHANGED <<max_context_tokens, conversation_history, next_msg, registry,
                   confirm_before_action, confirm_callback, audit_log, mem_vars>>

\* _call_llm raises: process_message raises.
pm_llm_raises ==
    /\ turn.pc = "llm"
    /\ turn' = [turn EXCEPT !.pc = "raised", !.error = "llm"]
    /\ UNCHANGED <<max_context_tokens, conversation_history, next_msg, exec_vars,
                   mem_vars>>

\* execute returned (agent.py:192-210): the call and its result are appended,
\* then the next call of the response is executed or the loop goes on.
pm_tool_returned ==
    /\ turn.pc = "executing"
    /\ ex.pc = "returned"
    /\ LET h == conversation_history \o tool_entries(ex.result, next_msg)
           t == [turn EXCEPT !.actions_taken = Append(@, ex.tool),
                             !.tool_calls = Tail(@),
                             !.denied = IF ex.confirmed = "false" THEN @ + 1 ELSE @] IN
       IF t.tool_calls # <<>>
       THEN /\ turn' = [t EXCEPT !.started = @ + 1]
            /\ conversation_history' = h
            /\ next_msg' = next_msg + 2
            /\ ex' = begin_call(Head(t.tool_calls), turn.request.user_id)
       ELSE LET r == loop_top(t, h, next_msg + 2) IN
            /\ turn' = r.turn
            /\ conversation_history' = r.history
            /\ next_msg' = r.next
            /\ ex' = ExIdle
    /\ UNCHANGED <<max_context_tokens, registry, confirm_before_action,
                   confirm_callback, audit_log, mem_vars>>

\* execute raised: process_message raises (agent.py:192 is in no try).
pm_tool_raised ==
    /\ turn.pc = "executing"
    /\ ex.pc = "raised"
    /\ turn' = [turn EXCEPT !.pc = "raised", !.error = "confirm"]
    /\ ex' = ExIdle
    /\ UNCHANGED <<max_context_tokens, conversation_history, next_msg, registry,
                   confirm_before_action, confirm_callback, audit_log, mem_vars>>

\* The outcomes of the memorize check other than a stored memory: "no" is an
\* answer that parses and does not ask to store, "raises" an exception of the
\* completion call, "unparseable" an answer json.loads rejects, "no_content" an
\* answer with should_store true and no content key, "store_raises" one whose
\* content memory.store cannot insert.
MemorizeFailures == {"raises", "unparseable", "no_content", "store_raises"}

\* Variant: only the parse error caught.
M_memorize_swallows(outcome) == outcome = "unparseable"

\* The except clause of agent.py:378: every Exception is caught.
memorize_swallows(outcome) == TRUE

\* Where process_message is after the memorize check failed with `outcome`.
after_memorize_failure(outcome) ==
    IF memorize_swallows(outcome) THEN "done" ELSE "raised"

\* The _call_llm_simple of _maybe_memorize returns or raises (agent.py:368-379):
\* "store" is an answer with should_store true and a content, the other
\* answers are "no" and the MemorizeFailures.
pm_memorize_returns(answer, content, tags, now) ==
    /\ turn.pc = "memorize"
    /\ IF answer = "store"
       THEN /\ store_insert(content, turn.request.user_id, tags, now)
            /\ turn' = [turn EXCEPT !.pc = "memorize_store", !.memorize = answer]
       ELSE IF answer = "store_raises"
       THEN /\ store_insert_raises
            /\ turn' = [turn EXCEPT !.pc = after_memorize_failure(answer),
                                    !.memorize = answer]
       ELSE /\ turn' = [turn EXCEPT !.pc = IF answer = "no" THEN "done"
                                          ELSE after_memorize_failure(answer),
                                    !.memorize = answer]
            /\ UNCHANGED mem_vars
    /\ UNCHANGED <<max_context_tokens, conversation_history, next_msg, exec_vars>>

\* memory.store of _maybe_memorize returns; process_message returns.
pm_memorize_stored ==
    /\ turn.pc = "memorize_store"
    /\ store_index
    /\ turn' = [turn EXCEPT !.pc = "done"]
    /\ UNCHANGED <<max_context_tokens, conversation_history, next_msg, exec_vars>>

\* memory.store of _maybe_memorize raises at its second INSERT (agent.py:372-379).
pm_memorize_store_raises ==
    /\ turn.pc = "memorize_store"
    /\ store_index_raises
    /\ turn' = [turn EXCEPT !.pc = after_memorize_failure("store_raises"),
                            !.memorize = "store_raises"]
    /\ UNCHANGED <<max_context_tokens, conversation_history, next_msg, exec_vars>>

\* The caller takes the AgentResponse (or the exception).
pm_end ==
    /\ turn.pc \in {"done", "raised"}
    /\ turn' = TurnIdle
    /\ UNCHANGED <<max_context_tokens, conversation_history, next_msg, exec_vars,
                   mem_vars>>

\* The attributes initialize() sets (agent.py:75-91).
Components == {"memory", "tool_registry", "tool_executor", "llm_client"}

\* The state after construction (agent.py:61-68).
AgentNew ==
    /\ conversation_history = <<>>
    /\ next_msg = 1
    /\ turn = TurnIdle
    /\ turns = 0
    /\ events = 0
    /\ initialized = FALSE
    /\ wired = {}
    /\ boot = "idle"
    /\ boots = 0

\* The state after construction and initialize() (agent.py:61-95).
AgentInit ==
    /\ conversation_history = <<>>
    /\ next_msg = 1
    /\ turn = TurnIdle
    /\ turns = 0
    /\ events = 0
    /\ initialized = TRUE
    /\ wired = Components
    /\ boot = "idle"
    /\ boots = 1

\* initialize() is called (agent.py:70-76): the MemoryStore is built and its
\* initialize() awaited.
initialize_begin ==
    /\ boot = "idle"
    /\ wired' = wired \cup {"memory"}
    /\ boot' = "memory"
    /\ UNCHANGED initialized

\* memory.initialize() returns or raises (agent.py:76-81): on a return the
\* ToolRegistry is built and its discover_skills() awaited.
initialize_memory(outcome) ==
    /\ boot = "memory"
    /\ IF outcome = "raises"
       THEN boot' = "idle" /\ UNCHANGED wired
       ELSE boot' = "registry" /\ wired' = wired \cup {"tool_registry"}
    /\ UNCHANGED initialized

\* discover_skills() returns (agent.py:81-95): the ToolExecutor is built, then
\* _build_llm_client returns a client or raises (agent.py:123-124); only after
\* it is _initialized set.
initialize_registry(llm_outcome) ==
    /\ boot = "registry"
    /\ boot' = "idle"
    /\ IF llm_outcome = "raises"
       THEN /\ wired' = wired \cup {"tool_executor"}
            /\ UNCHANGED initialized
       ELSE /\ wired' = wired \cup {"tool_executor", "llm_client"}
            /\ initialized' = TRUE

(***************************************************************************)
(* The interface layer: CLIInterface, TelegramInterface, DiscordInterface  *)
(***************************************************************************)
Interfaces == {"cli", "telegram", "discord"}

\* What the user does about a confirmation prompt: an explicit yes, an explicit
\* no, or nothing (an empty line at the CLI, no reaction, no button pressed).
UserResponses == {"yes", "no", "none"}

\* The confirmation function each adapter wires into the executor
\* (cli_interfact.py:165-172, telegram_interface.py:96-107,
\* discord_interface.py:133-142): what it returns when the user did `response`.
\* Only the CLI reads the user's response.
interface_confirm(iface, response) ==
    IF iface = "cli" THEN response = "yes" ELSE TRUE

\* Whether the adapter's confirmation function waits for the user at all.
interface_prompts(iface) == iface = "cli"

\* The slash commands of each adapter (cli_interfact.py:120-163,
\* telegram_interface.py:49-52, discord_interface.py:86-112).
Commands(iface) ==
    CASE iface = "cli"      -> {"memory", "clear", "history", "skills"}
      [] iface = "telegram" -> {"memory", "history"}
      [] iface = "discord"  -> {"memory", "clear", "skills"}
      [] OTHER              -> {}

\* The limit the history command passes to get_audit_log
\* (cli_interfact.py:147, telegram_interface.py:157).
history_limit(iface) == IF iface = "cli" THEN 15 ELSE 10

\* What a query returned: the audit entries of get_audit_log, or the actions of
\* each skill for the skills command.
NoQuery == [op |-> "none", limit |-> 0, log |-> <<>>, listing |-> <<>>]

\* Variant: clear as a query that leaves the transcript alone.
M_clear(h) == h

\* conversation_history.clear() (cli_interfact.py:143, discord_interface.py:102).
clear(h) == <<>>

\* The memory command: memory.get_all for the user of the adapter.
cmd_memory(user_id) ==
    /\ get_all(user_id)
    /\ query_ret' = [NoQuery EXCEPT !.op = "memory"]
    /\ UNCHANGED <<exec_vars, agent_vars, skill_vars>>

\* The clear command.
cmd_clear ==
    /\ conversation_history' = clear(conversation_history)
    /\ query_ret' = [NoQuery EXCEPT !.op = "clear"]
    /\ UNCHANGED <<exec_vars, mem_vars, max_context_tokens, next_msg, turn, skill_vars>>

\* The history command.
cmd_history(limit) ==
    /\ query_ret' = [NoQuery EXCEPT !.op = "history", !.limit = limit,
                                    !.log = get_audit_log(limit)]
    /\ UNCHANGED <<exec_vars, mem_vars, agent_vars, skill_vars>>

\* The skills command: each loaded skill with the actions of its instance.
cmd_skills ==
    /\ query_ret' = [NoQuery EXCEPT !.op = "skills",
                        !.listing = [n \in DOMAIN skills |->
                                        {m \in DOMAIN tools : registry[m].skill = n}]]
    /\ UNCHANGED <<exec_vars, mem_vars, agent_vars, skill_vars>>

\* No adapter built, no prompt answered, no query made.
IfaceInit ==
    /\ interface = "none"
    /\ user_response = "unset"
    /\ query_ret = NoQuery

(***************************************************************************)
(* FilesSkill                                                              *)
(***************************************************************************)
\* A path is the list of its components and a component the list of its
\* characters, so that str(path) is what _safe_path compares.
DotDot == <<".", ".">>
H      == <<"h">>
W      == <<"w">>
WX     == <<"w", "x">>
A      == <<"a">>

\* self.workspace, resolved: /h/w. /h/wx is a sibling directory.
workspace == <<H, W>>

\* str(p) for an absolute path p.
RECURSIVE path_str(_)
path_str(parts) ==
    IF parts = <<>> THEN <<"/">>
    ELSE IF Len(parts) = 1 THEN <<"/">> \o parts[1]
    ELSE path_str(SubSeq(parts, 1, Len(parts) - 1)) \o <<"/">> \o parts[Len(parts)]

\* self.workspace / path: an absolute path replaces the workspace.
joinpath(base, path) == IF path.absolute THEN path.parts ELSE base \o path.parts

\* Path.resolve() where no component is a symbolic link: ".." drops the
\* component before it, and stays at the root.
RECURSIVE resolve_onto(_, _)
resolve_onto(done, rest) ==
    IF rest = <<>> THEN done
    ELSE IF Head(rest) = DotDot
    THEN resolve_onto(SubSeq(done, 1, Len(done) - (IF done = <<>> THEN 0 ELSE 1)),
                      Tail(rest))
    ELSE resolve_onto(Append(done, Head(rest)), Tail(rest))

resolve(parts) == resolve_onto(<<>>, parts)

\* str.startswith
startswith(text, prefix) ==
    Len(prefix) <= Len(text) /\ SubSeq(text, 1, Len(prefix)) = prefix

\* FilesSkill._safe_path (files.py:37-42): the resolved path, or PermissionError.
safe_path(path) ==
    LET resolved == resolve(joinpath(workspace, path)) IN
    IF ~startswith(path_str(resolved), path_str(workspace))
    THEN [raised |-> TRUE, resolved |-> <<>>]
    ELSE [raised |-> FALSE, resolved |-> resolved]

\* The path arguments the completion backend may pass.
MaxPathLen == 3
PathArgs ==
    { [absolute |-> abs, parts |-> parts] :
        abs \in BOOLEAN,
        parts \in UNION { [1..n -> {DotDot, H, W, WX, A}] : n \in 0..MaxPathLen } }

\* The file operations that take a path (files.py:44-145); each begins with
\* _safe_path and touches the file system only below.
FileOps == {"list_files", "read_file", "write_file", "append_file", "delete_file"}

NoFsCall == [op |-> "none", path |-> [absolute |-> FALSE, parts |-> <<>>],
             denied |-> FALSE, target |-> <<>>]

\* One file operation: PermissionError is caught and reported as text
\* (files.py:68-69 and alike); otherwise the operation acts on `target`.
file_op(op, path) ==
    fs_call' = [op |-> op, path |-> path, denied |-> safe_path(path).raised,
                target |-> safe_path(path).resolved]

FilesInit == fs_call = NoFsCall

(***************************************************************************)
(* The host: what main() and the adapters' handlers keep                   *)
(***************************************************************************)
\* No second turn in flight.
IdleB == [pc |-> "idle", user_id |-> "-", old_messages |-> <<>>,
          recent_messages |-> <<>>, compacted |-> FALSE]

\* No Telegram update handled yet.
NoUpdate == [handler |-> "none", sender |-> "-", reply |-> "none",
             log |-> <<>>, skills |-> {}, rows |-> <<>>]

\* main() has loaded nothing yet.
NoStartup == [pc |-> "new", llm_provider |-> "-", api_key |-> FALSE,
              token |-> FALSE, turns |-> 0]

\* The adapter's loop runs and has replied nothing.
Running == [running |-> TRUE, reply |-> "none"]

ExtInit ==
    /\ sent = <<>>
    /\ owners = << >>
    /\ turn_b = IdleB
    /\ allowed_users = {}
    /\ tg = NoUpdate
    /\ startup = NoStartup
    /\ session = Running

(***************************************************************************)
(* SpecExec: the interface layer and direct callers of ToolExecutor        *)
(***************************************************************************)
ExecFrame == UNCHANGED <<mem_vars, agent_vars, mem_calls, turns, events, boot_vars,
                         iface_vars, skill_vars, fs_call,
        ext_vars>>

ExecCall ==
    /\ exec_calls < MaxExecCalls
    /\ \E tool_name \in ToolNames, user_id \in Users : execute_begin(tool_name, user_id)
    /\ exec_calls' = exec_calls + 1
    /\ ExecFrame

ExecConfirm ==
    /\ \E outcome \in {"yes", "no", "raises"} : confirm_returns(outcome)
    /\ UNCHANGED exec_calls
    /\ ExecFrame

ExecTool ==
    /\ \E outcome \in {"returns", "raises"}, value \in ToolValues :
          tool_returns(outcome, value)
    /\ UNCHANGED exec_calls
    /\ ExecFrame

\* The caller takes the result (or the exception) of execute().
ExecDone ==
    /\ ex.pc \in {"returned", "raised"}
    /\ ex' = ExIdle
    /\ UNCHANGED <<registry, confirm_before_action, confirm_callback, audit_log,
                   exec_calls>>
    /\ ExecFrame

ExecWire ==
    /\ set_confirm_callback
    /\ UNCHANGED exec_calls
    /\ ExecFrame

InitExec ==
    /\ ExecInit /\ MemInit /\ AgentInit /\ max_context_tokens = 80000
    /\ RegistryInit /\ IfaceInit /\ FilesInit /\ ExtInit

\* A caller reads the audit log.
AuditLimits == 0..3

ExecAuditLog ==
    /\ \E limit \in AuditLimits : cmd_history(limit)
    /\ UNCHANGED <<exec_calls, mem_calls, turns, events, boot_vars, interface,
                   user_response, fs_call,
        ext_vars>>

NextExec == ExecCall \/ ExecConfirm \/ ExecTool \/ ExecDone \/ ExecWire \/ ExecAuditLog

SpecExec == InitExec /\ [][NextExec]_vars

(***************************************************************************)
(* SpecMem: direct callers of MemoryStore                                  *)
(***************************************************************************)
MemFrame == UNCHANGED <<exec_vars, agent_vars, exec_calls, turns, events, boot_vars,
                        iface_vars, skill_vars, fs_call,
        ext_vars>>

MemStore ==
    /\ mem_calls < MaxMemCalls
    /\ \E content \in Contents, user_id \in Users, tags \in TagArgs, now \in Readings :
          store_insert(content, user_id, tags, now)
    /\ mem_calls' = mem_calls + 1
    /\ MemFrame

MemStoreIndex ==
    /\ store_index
    /\ UNCHANGED mem_calls
    /\ MemFrame

MemSearch ==
    /\ mem_calls < MaxMemCalls
    /\ \E query \in Queries, user_id \in Users, limit \in Limits, tags \in TagArgs,
          now \in Readings :
          search(query, user_id, limit, tags, now)
    /\ mem_calls' = mem_calls + 1
    /\ MemFrame

MemGetAll ==
    /\ mem_calls < MaxMemCalls
    /\ \E user_id \in Users : get_all(user_id)
    /\ mem_calls' = mem_calls + 1
    /\ MemFrame

MemStoreRaises ==
    /\ mem_calls < MaxMemCalls
    /\ store_insert_raises
    /\ mem_calls' = mem_calls + 1
    /\ MemFrame

MemStoreIndexRaises ==
    /\ store_index_raises
    /\ UNCHANGED mem_calls
    /\ MemFrame

MemDelete ==
    /\ mem_calls < MaxMemCalls
    /\ \E memory_id \in 1..next_rowid : delete_begin(memory_id)
    /\ mem_calls' = mem_calls + 1
    /\ MemFrame

MemDeleteIndex ==
    /\ delete_index
    /\ UNCHANGED mem_calls
    /\ MemFrame

InitMem ==
    /\ ExecInit /\ MemInit /\ AgentInit /\ max_context_tokens = 80000
    /\ RegistryInit /\ IfaceInit /\ FilesInit /\ ExtInit

NextMem ==
    \/ MemStore \/ MemStoreIndex \/ MemStoreRaises \/ MemStoreIndexRaises
    \/ MemSearch \/ MemGetAll \/ MemDelete \/ MemDeleteIndex

SpecMem == InitMem /\ [][NextMem]_vars

(***************************************************************************)
(* SpecAgent: callers of MAXAgent.process_message, the completion backend, *)
(* the capability implementations and the confirmation function            *)
(***************************************************************************)
AgentFrame == UNCHANGED <<exec_calls, mem_calls, boot_vars, iface_vars, skill_vars,
                          fs_call,
        ext_vars>>

\* The tool calls one completion response may request; the first is the plain
\* one.
PlainCalls == <<"files__read_file">>
CallLists == { PlainCalls, <<"files__nope", "files__delete_file">> }

\* In this specification every reading of the clock is later than the last,
\* until the clock's bound.
Tick == Min(clock + 1, MaxClock)

\* A response of the environment that is not the plain one is counted.
Counted(plain) ==
    IF plain THEN UNCHANGED events
    ELSE events < MaxEvents /\ events' = events + 1

AgentTurn ==
    /\ turns < MaxTurns
    /\ \E request \in Requests : pm_start(request, Tick)
    /\ turns' = turns + 1
    /\ UNCHANGED events
    /\ AgentFrame

AgentSummary ==
    /\ \E summary \in {{"tea", "code"}} : pm_summary_returns(summary, Tick)
    /\ UNCHANGED <<turns, events>>
    /\ AgentFrame

AgentSummaryRaises ==
    /\ pm_summary_raises
    /\ UNCHANGED <<turns, events>>
    /\ AgentFrame

AgentSummaryUnstorable ==
    /\ pm_summary_unstorable
    /\ Counted(FALSE)
    /\ UNCHANGED turns
    /\ AgentFrame

AgentCompactStored ==
    /\ pm_compact_stored
    /\ UNCHANGED <<turns, events>>
    /\ AgentFrame

AgentCompactStoreRaises ==
    /\ pm_compact_store_raises
    /\ Counted(FALSE)
    /\ UNCHANGED turns
    /\ AgentFrame

AgentAnswer ==
    /\ \E text \in {"answer", "empty"} :
          pm_llm_answers(text) /\ Counted(text = "answer")
    /\ UNCHANGED turns
    /\ AgentFrame

AgentRequests ==
    /\ \E calls \in CallLists :
          pm_llm_requests(calls) /\ Counted(calls = PlainCalls)
    /\ UNCHANGED turns
    /\ AgentFrame

AgentLlmRaises ==
    /\ pm_llm_raises
    /\ Counted(FALSE)
    /\ UNCHANGED turns
    /\ AgentFrame

AgentConfirm ==
    /\ turn.pc = "executing"
    /\ \E outcome \in {"yes", "no", "raises"} : confirm_returns(outcome)
    /\ UNCHANGED <<mem_vars, agent_vars, turns, events>>
    /\ AgentFrame

AgentTool ==
    /\ turn.pc = "executing"
    /\ \E outcome \in {"returns", "raises"} :
          tool_returns(outcome, Text("done")) /\ Counted(outcome = "returns")
    /\ UNCHANGED <<mem_vars, agent_vars, turns>>
    /\ AgentFrame

AgentToolReturned ==
    /\ pm_tool_returned
    /\ UNCHANGED <<turns, events>>
    /\ AgentFrame

AgentToolRaised ==
    /\ pm_tool_raised
    /\ UNCHANGED <<turns, events>>
    /\ AgentFrame

AgentMemorize ==
    /\ \E answer \in {"no", "store", "raises"} :
          pm_memorize_returns(answer, {"tea"}, {"pref"}, Tick) /\ Counted(answer # "store")
    /\ UNCHANGED turns
    /\ AgentFrame

AgentMemorizeStored ==
    /\ pm_memorize_stored
    /\ UNCHANGED <<turns, events>>
    /\ AgentFrame

AgentEnd ==
    /\ pm_end
    /\ UNCHANGED <<turns, events>>
    /\ AgentFrame

\* Settings and wiring: MAX_CONTEXT_TOKENS is 1 or 500, the files skill is
\* enabled, CONFIRM_BEFORE_ACTION is true and the interface has wired its
\* confirmation function (SpecHost has the other wirings).
InitAgent ==
    /\ registry = discover_skills({"files"})
    /\ confirm_before_action = TRUE
    /\ confirm_callback = "wired"
    /\ audit_log = <<>>
    /\ ex = ExIdle
    /\ exec_calls = 0
    /\ MemInit
    /\ AgentInit
    /\ max_context_tokens \in {1, 500}
    /\ RegistryInit /\ IfaceInit /\ FilesInit /\ ExtInit

NextAgent ==
    \/ AgentTurn \/ AgentSummary \/ AgentSummaryRaises \/ AgentSummaryUnstorable
    \/ AgentCompactStored \/ AgentCompactStoreRaises
    \/ AgentAnswer \/ AgentRequests \/ AgentLlmRaises
    \/ AgentConfirm \/ AgentTool \/ AgentToolReturned \/ AgentToolRaised
    \/ AgentMemorize \/ AgentMemorizeStored \/ AgentEnd

SpecAgent == InitAgent /\ [][NextAgent]_vars

(***************************************************************************)
(* SpecHost: the host that boots the agent (main.py) and the interface     *)
(* that sends it turns; the completion backend answers in every shape      *)
(***************************************************************************)
HostFrame == UNCHANGED <<exec_calls, mem_calls, iface_vars, skill_vars, fs_call,
        ext_vars>>

\* The tool calls one completion response may request here: a read, and a
\* deletion, which asks for confirmation, followed by a read.
HostCallLists == { PlainCalls, <<"files__delete_file", "files__read_file">> }

\* What the interface sends: a message that the text search can parse, and
\* "What's 2+2?", which it cannot.
HostRequests ==
    { [user_id |-> "alice", chars |-> 3,
       query |-> [len |-> 3, terms |-> {"tea"}, valid |-> TRUE]],
      [user_id |-> "alice", chars |-> 11,
       query |-> [len |-> 11, terms |-> {}, valid |-> FALSE]] }

\* Here the plain responses are a final answer of the backend, a returning
\* capability and a memorize check that stores nothing; any other response is
\* counted.
Surprise(plain) ==
    IF plain THEN UNCHANGED events
    ELSE events < MaxSurprises /\ events' = events + 1

\* main.py:84-85: the host calls initialize(), again after a failure.
HostInitialize ==
    /\ boots < MaxBoots
    /\ ~initialized
    /\ initialize_begin
    /\ boots' = boots + 1
    /\ UNCHANGED <<exec_vars, mem_vars, agent_vars, turns, events>>
    /\ HostFrame

HostInitMemory ==
    /\ \E outcome \in {"returns", "raises"} : initialize_memory(outcome)
    /\ UNCHANGED <<exec_vars, mem_vars, agent_vars, turns, events, boots>>
    /\ HostFrame

HostInitRegistry ==
    /\ \E llm_outcome \in {"returns", "raises"} : initialize_registry(llm_outcome)
    /\ UNCHANGED <<exec_vars, mem_vars, agent_vars, turns, events, boots>>
    /\ HostFrame

\* A caller that does not wait for initialize(), or goes on after it failed.
HostRejected ==
    /\ turns < MaxHostTurns
    /\ \E request \in HostRequests : pm_not_initialized(request)
    /\ turns' = turns + 1
    /\ UNCHANGED <<events, boot_vars>>
    /\ HostFrame

HostTurn ==
    /\ turns < MaxHostTurns
    /\ \E request \in HostRequests : pm_start(request, Tick)
    /\ turns' = turns + 1
    /\ UNCHANGED <<events, boot_vars>>
    /\ HostFrame

HostAnswer ==
    /\ \E text \in {"answer", "empty"} :
          pm_llm_answers(text) /\ Surprise(text = "answer")
    /\ UNCHANGED <<turns, boot_vars>>
    /\ HostFrame

HostMalformed ==
    /\ \E payload \in Payloads : pm_llm_malformed(payload)
    /\ Surprise(FALSE)
    /\ UNCHANGED <<turns, boot_vars>>
    /\ HostFrame

HostCalls ==
    /\ \E calls \in HostCallLists : pm_llm_requests(calls)
    /\ Surprise(FALSE)
    /\ UNCHANGED <<turns, boot_vars>>
    /\ HostFrame

HostLlmRaises ==
    /\ pm_llm_raises
    /\ Surprise(FALSE)
    /\ UNCHANGED <<turns, boot_vars>>
    /\ HostFrame

HostConfirm ==
    /\ turn.pc = "executing"
    /\ \E outcome \in {"yes", "no", "raises"} : confirm_returns(outcome)
    /\ UNCHANGED <<mem_vars, agent_vars, turns, events, boot_vars>>
    /\ HostFrame

HostTool ==
    /\ turn.pc = "executing"
    /\ \E outcome \in {"returns", "raises"} :
          tool_returns(outcome, Text("done")) /\ Surprise(outcome = "returns")
    /\ UNCHANGED <<mem_vars, agent_vars, turns, boot_vars>>
    /\ HostFrame

HostToolReturned ==
    /\ pm_tool_returned
    /\ UNCHANGED <<turns, events, boot_vars>>
    /\ HostFrame

HostToolRaised ==
    /\ pm_tool_raised
    /\ UNCHANGED <<turns, events, boot_vars>>
    /\ HostFrame

HostMemorize ==
    /\ \E answer \in {"no", "store"} \cup MemorizeFailures :
          pm_memorize_returns(answer, {"tea"}, {"pref"}, Tick)
              /\ Surprise(answer = "no")
    /\ UNCHANGED <<turns, boot_vars>>
    /\ HostFrame

HostMemorizeStored ==
    /\ pm_memorize_stored
    /\ UNCHANGED <<turns, events, boot_vars>>
    /\ HostFrame

HostMemorizeStoreRaises ==
    /\ pm_memorize_store_raises
    /\ Surprise(FALSE)
    /\ UNCHANGED <<turns, boot_vars>>
    /\ HostFrame

HostEnd ==
    /\ pm_end
    /\ UNCHANGED <<turns, events, boot_vars>>
    /\ HostFrame

\* Settings and wiring: the default MAX_CONTEXT_TOKENS, the files skill enabled,
\* CONFIRM_BEFORE_ACTION true with or without a confirmation function wired by the
\* interface, or false; the agent constructed and not yet initialized.
InitHost ==
    /\ registry = discover_skills({"files"})
    /\ \E wiring \in {<<TRUE, "wired">>, <<TRUE, "none">>, <<FALSE, "none">>} :
          /\ confirm_before_action = wiring[1]
          /\ confirm_callback = wiring[2]
    /\ audit_log = <<>>
    /\ ex = ExIdle
    /\ exec_calls = 0
    /\ MemInit
    /\ AgentNew
    /\ max_context_tokens = 80000
    /\ RegistryInit /\ IfaceInit /\ FilesInit /\ ExtInit

NextHost ==
    \/ HostInitialize \/ HostInitMemory \/ HostInitRegistry \/ HostRejected
    \/ HostTurn \/ HostAnswer \/ HostMalformed \/ HostCalls \/ HostLlmRaises
    \/ HostConfirm \/ HostTool \/ HostToolReturned \/ HostToolRaised
    \/ HostMemorize \/ HostMemorizeStored \/ HostMemorizeStoreRaises \/ HostEnd

SpecHost == InitHost /\ [][NextHost]_vars

(***************************************************************************)
(* Properties of ToolExecutor.execute (SpecExec)                           *)
(***************************************************************************)
\* C1: with confirm_before_action set, a capability whose descriptor requires
\* confirmation is invoked only after the confirmation function returned true
\* to this invocation; when the function returned false, execute returns
\* {success: false, cancelled: true, error: "Action cancelled by user"} and the
\* implementation is not invoked.
C1_ConfirmedBeforeExecute ==
    (confirm_before_action /\ requires_confirmation(ex.tool)) =>
        /\ ex.invoked => ex.answer = "yes"
        /\ ex.answer = "no" =>
              /\ ex.pc = "returned"
              /\ ~ex.invoked
              /\ ex.result = [success |-> FALSE, result |-> "None", cancelled |-> "true",
                              error |-> "Action cancelled by user",
                              tool_name |-> ex.tool]

\* A confirmation-requiring capability ran to its end after a "yes", and an
\* earlier one was denied (it left no audit entry).
C1_Witness ==
    /\ confirm_before_action /\ requires_confirmation(ex.tool)
    /\ ex.pc = "returned" /\ ex.invoked /\ ex.answer = "yes"
    /\ exec_calls = 2 /\ Len(audit_log) = 1

\* C2: with confirm_before_action set and no confirmation function wired, the
\* implementation of a capability that requires confirmation is never invoked.
C2_NoCallbackNoExecution ==
    (confirm_before_action /\ confirm_callback = "none"
        /\ requires_confirmation(ex.tool)) => ~ex.invoked

C2_Witness ==
    /\ confirm_before_action /\ confirm_callback = "none"
    /\ requires_confirmation(ex.tool) /\ ex.pc = "returned"

\* C3 as stated: a confirmation-requiring capability invoked with no
\* confirmation function wired always returns cancelled false and success false.
C3_Original ==
    (confirm_callback = "none" /\ requires_confirmation(ex.tool)
        /\ ex.pc = "returned") =>
        /\ ex.result.cancelled # "true"
        /\ ~ex.result.success

\* C3 amended: when the executor is configured to require confirmation, such a
\* call returns cancelled true, success false and the error "Action cancelled
\* by user", and the implementation is not invoked.
C3_NoCallbackCancelled ==
    (confirm_before_action /\ confirm_callback = "none"
        /\ requires_confirmation(ex.tool) /\ ex.pc = "returned") =>
        /\ ex.result.cancelled = "true"
        /\ ~ex.result.success
        /\ ex.result.error = "Action cancelled by user"
        /\ ex.answer = "unset"

C3_Witness ==
    /\ confirm_before_action /\ confirm_callback = "none"
    /\ ex.pc = "returned" /\ ex.tool = "files__delete_file"
    /\ ex.result.cancelled = "true"

\* C4: execute never raises past its boundary, whatever the capability
\* implementation and the confirmation function do.
C4_NeverRaises == ex.pc # "raised"

C20_AuditAgreesWithResult ==
    [][ /\ (ex.pc = "running" /\ ex'.pc # "running") =>
             /\ ex'.pc = "returned"
             /\ Len(audit_log') = Len(audit_log) + 1
             /\ SubSeq(audit_log', 1, Len(audit_log)) = audit_log
             /\ LET e == audit_log'[Len(audit_log')]
                    r == ex'.result IN
                /\ e.tool = ex.tool /\ e.user_id = ex.user
                /\ r.tool_name = ex.tool
                /\ ex'.outcome = "returns" =>
                      /\ e.success /\ e.error = "absent"
                      /\ r.success /\ r.error = "None"
                      /\ r.result = str(ex'.value)
                /\ ex'.outcome = "raises" =>
                      /\ ~e.success /\ e.error = ExceptionMessage
                      /\ ~r.success /\ r.error = e.error /\ r.result = "None"
        /\ ex.pc # "running" => audit_log' = audit_log ]_vars

\* An implementation that returned the number 7 was followed by one that
\* raised: two entries, the last one a failure.
C20_Witness ==
    /\ ex.pc = "returned" /\ ex.outcome = "raises"
    /\ Len(audit_log) = 2
    /\ audit_log[1].success /\ ~audit_log[2].success
    /\ audit_log[2].error = ex.result.error

(***************************************************************************)
(* Properties of MemoryStore (SpecMem)                                     *)
(***************************************************************************)
\* C7: every record returned by search(q, u, ...) or get_all(u) was stored
\* with user_id = u.
C7_UserIsolation ==
    mem_ret.op \in {"search", "get_all"} =>
        \A i \in 1..Len(mem_ret.rows) :
            /\ mem_ret.rows[i].user_id = mem_ret.user
            /\ stored_user[mem_ret.rows[i].id] = mem_ret.user

\* A full-text search returned a record while another user's record with the
\* same content (so matching the same query) is stored and indexed.
C7_Witness ==
    /\ mem_ret.op = "search" /\ mem_ret.path = "fts" /\ Len(mem_ret.rows) >= 1
    /\ \E id \in DOMAIN memories \cap DOMAIN memories_fts :
          /\ memories[id].user_id # mem_ret.user
          /\ memories[id].content = mem_ret.rows[1].content

\* C8: the stored access_count of a record is one more than it was, each time
\* a search call returns it, on the full-text path and on the short-query path.
C8_TouchOnEverySearch ==
    (mem_ret.op = "search" /\ ~mem_ret.raised) =>
        \A i \in 1..Len(mem_ret.rows) :
            mem_ret.rows[i].id \in DOMAIN memories =>
                memories[mem_ret.rows[i].id].access_count
                    = mem_ret.rows[i].access_count + 1

(***************************************************************************)
(* Properties of MAXAgent.process_message (SpecAgent)                      *)
(***************************************************************************)
\* a is an initial segment of b.
IsPrefix(a, b) == Len(a) <= Len(b) /\ SubSeq(b, 1, Len(a)) = a

\* x is an entry of h.
In(x, h) == \E j \in 1..Len(h) : h[j] = x

\* C5 as stated: a process_message call makes at most 15 calls of the
\* completion capability.
C5_Original == turn.llm_calls + turn.simple_calls <= 15

\* C5 amended: a process_message call makes at most 15 completion calls in its
\* reasoning loop, and at most 17 in all: one more for the summary of
\* compaction and one more for the memorize check.
C5_BoundedCompletionCalls ==
    /\ turn.llm_calls <= 15
    /\ turn.iterations = turn.llm_calls
    /\ turn.simple_calls <= 2
    /\ turn.pc \in {"memorize", "memorize_store", "done"} =>
          turn.simple_calls >= 1

\* A turn ended in which the backend requested tool calls 15 times and in which
\* compaction and the memorize check each made their call.
C5_Witness ==
    /\ turn.pc = "done" /\ turn.requested = 15 /\ turn.llm_calls = 15
    /\ turn.simple_calls = 2

\* C6: if all 15 loop iterations request capability calls, process_message does
\* not raise: it returns the apology, appended to the transcript as the
\* assistant's reply.
C6_ApologyOnExhaustion ==
    (turn.requested = 15 /\ turn.pc \in {"done", "raised"}) =>
        /\ turn.pc = "done"
        /\ turn.final_response = "apology"
        /\ conversation_history[Len(conversation_history)].role = "assistant"
        /\ conversation_history[Len(conversation_history)].kind = "apology"

\* C9: _compact_context leaves a transcript of 10 or fewer entries as it is, and
\* when it replaces the transcript the last 10 entries are those that were the
\* last 10 when it started, in the same order.
C9_CompactionKeepsLast10 ==
    /\ (turn.compact # "none" /\ Len(turn.at_compact) <= 10) =>
          IsPrefix(turn.at_compact, conversation_history)
    /\ turn.compact \in {"pending", "failed"} =>
          conversation_history = turn.at_compact
    /\ turn.pc = "compact_store" =>
          /\ Len(turn.at_compact) > 10
          /\ LastN(conversation_history, 10) = LastN(turn.at_compact, 10)
    /\ turn.compact = "replaced" =>
          SubSeq(conversation_history, 2, 11) = LastN(turn.at_compact, 10)

\* Compaction has just replaced a transcript of at least 13 entries.
C9_Witness ==
    /\ turn.pc = "compact_store" /\ turn.compact = "replaced"
    /\ Len(turn.at_compact) >= 13
    /\ Len(conversation_history) = 11

\* C10 as stated: after compaction in a turn that started with more than 10
\* entries, the 10 most recent of those prior entries are in the transcript,
\* behind a new summary entry.
C10_Original ==
    (turn.compact = "replaced" /\ Len(turn.prior) > 10) =>
        /\ conversation_history[1].kind = "summary"
        /\ \A i \in 1..10 : In(LastN(turn.prior, 10)[i], conversation_history)

\* C10 amended: the 9 most recent of the prior entries and the turn's user
\* message remain, in order, right behind a single new summary entry.
C10_CompactionKeepsLast9Prior ==
    (turn.compact = "replaced" /\ Len(turn.prior) > 10) =>
        /\ conversation_history[1].kind = "summary"
        /\ ~In(conversation_history[1], turn.prior)
        /\ SubSeq(conversation_history, 2, 10) = LastN(turn.prior, 9)
        /\ conversation_history[11].kind = "user"
        /\ conversation_history[11] = turn.at_compact[Len(turn.at_compact)]
        /\ \A j \in 2..Len(conversation_history) :
              conversation_history[j].kind # "summary"

\* Scenario C: compaction replaced the transcript in a turn that started with
\* 12 entries.
C10_Witness ==
    /\ turn.compact = "replaced" /\ Len(turn.prior) = 12
    /\ turn.pc = "compact_store"

\* The memory records stored since the turn started that are tagged
\* context_summary.
TurnSummaries ==
    {id \in DOMAIN memories :
        id >= turn.rowid0 /\ "context_summary" \in memories[id].tags}

\* C11: every compaction that replaces transcript entries also stores exactly
\* one memory record, holding the summary text, tagged context_summary, under
\* the user_id of the turn; and compaction is over before the first completion
\* call of the turn's reasoning loop.
C11_CompactionStoresSummary ==
    /\ (turn.compact = "replaced" /\ turn.pc # "compact_store") =>
          /\ Cardinality(TurnSummaries) = 1
          /\ \A id \in TurnSummaries :
                /\ id \in DOMAIN memories_fts
                /\ memories[id].content = {"tea", "code"}
                /\ memories_fts[id].content = {"tea", "code"}
                /\ memories[id].tags = {"context_summary"}
                /\ memories[id].user_id = turn.request.user_id
    /\ turn.pc \in {"summarize", "compact_store"} => turn.llm_calls = 0
    /\ turn.compact \in {"none", "skipped"} => TurnSummaries = {}

\* C12: when the summarizing completion call of compaction fails,
\* process_message raises and the transcript is the one compaction started
\* with: every entry held before, the turn's user message included.
C12_SummaryFailureKeepsTranscript ==
    turn.compact = "failed" =>
        /\ turn.pc = "raised" /\ turn.error = "summary"
        /\ conversation_history = turn.at_compact
        /\ \A i \in 1..Len(turn.prior) : conversation_history[i] = turn.prior[i]
        /\ Len(conversation_history) = Len(turn.prior) + 1
        /\ turn.llm_calls = 0
        /\ TurnSummaries = {}

\* The summarizing call failed on a transcript of 13 entries or more.
C12_Witness ==
    /\ turn.compact = "failed" /\ turn.pc = "raised"
    /\ Len(turn.at_compact) >= 13

(***************************************************************************)
(* Properties of one turn and of the boot sequence (SpecHost)              *)
(***************************************************************************)
\* The last 2 * Len(calls) entries of h are, for each call in order, its call
\* entry immediately followed by its result entry.
PairsAtEnd(h, calls) ==
    LET n == Len(calls)
        base == Len(h) - 2 * n IN
    /\ base >= 0
    /\ \A k \in 1..n :
          LET c == h[base + 2 * k - 1]
              r == h[base + 2 * k] IN
          /\ c.role = "assistant" /\ c.kind = "tool_call" /\ c.call = calls[k]
          /\ r.role = "tool_result" /\ r.kind = "tool_result"
          /\ r.result.tool_name = calls[k]
          /\ r.id = c.id + 1

\* C13: within one turn the requested capability calls are executed one at a
\* time in the order requested: while call k+1 is with the gateway, calls 1..k
\* have returned and their call and result entries are the last entries of the
\* transcript; at most one invocation, so at most one confirmation prompt, is
\* outstanding; and a completion call of a later iteration is made only with
\* the entries of all calls of the iteration before it in the transcript.
C13_SequentialCalls ==
    /\ turn.pc = "executing" =>
          LET done == Len(turn.iter_calls) - Len(turn.tool_calls) IN
          /\ ex.pc # "idle"
          /\ done + 1 <= Len(turn.iter_calls)
          /\ ex.tool = turn.iter_calls[done + 1]
          /\ turn.started = turn.asked - Len(turn.iter_calls) + done + 1
          /\ Len(turn.actions_taken) = turn.started - 1
          /\ PairsAtEnd(conversation_history, SubSeq(turn.iter_calls, 1, done))
    /\ turn.pc # "executing" => ex.pc = "idle"
    /\ ex.pc = "confirming" => ex.tool = Head(turn.tool_calls)
    /\ (turn.pc = "llm" /\ turn.iterations > 1) =>
          /\ turn.tool_calls = <<>>
          /\ turn.started = turn.asked
          /\ Len(turn.actions_taken) = turn.asked
          /\ PairsAtEnd(conversation_history, turn.iter_calls)

\* The second completion call of a turn is made after a response that
\* requested two calls.
C13_Witness ==
    /\ turn.pc = "llm" /\ turn.iterations = 2
    /\ turn.iter_calls = <<"files__delete_file", "files__read_file">>
    /\ turn.started = 2

\* The result entries appended since the turn started that hold a cancelled
\* result.
CancelledEntries ==
    {j \in 1..Len(conversation_history) :
        /\ conversation_history[j].kind = "tool_result"
        /\ conversation_history[j].id >= turn.msg0
        /\ conversation_history[j].result.cancelled = "true"}

\* C14: when a requested call is denied at confirmation, the transcript records
\* a result with cancelled true, right behind the entry of the call; the
\* transcript of every later completion call of the turn holds it; and the
\* gateway is invoked once for each requested call, never again for a denied
\* one.
C14_DenialRecordedOnce ==
    /\ turn.pc # "idle" => Cardinality(CancelledEntries) = turn.denied
    /\ \A j \in CancelledEntries :
          /\ j > 1
          /\ conversation_history[j].result
                = cancelled_result(conversation_history[j - 1].call)
          /\ conversation_history[j - 1].kind = "tool_call"
    /\ turn.pc = "executing" =>
          turn.started = turn.asked - Len(turn.tool_calls) + 1
    /\ turn.pc \in {"llm", "memorize", "memorize_store", "done"} =>
          turn.started = turn.asked

\* A completion call is in flight after a denial by the wired confirmation
\* function; the read requested behind the denied deletion was executed.
C14_Witness ==
    /\ turn.pc = "llm" /\ turn.iterations = 2 /\ turn.denied = 1
    /\ confirm_callback = "wired"
    /\ Len(audit_log) = 1

\* C15: if the first completion response of a turn requests no capability
\* calls, the loop ends after one iteration, the gateway is not invoked, and
\* process_message returns that response text, with actions_taken empty.
C15_FirstResponseWithoutCalls ==
    (turn.llm_calls = 1 /\ turn.last_response \in {"answer", "empty"}) =>
        /\ turn.pc \in {"memorize", "memorize_store", "done"}
        /\ turn.iterations = 1
        /\ turn.started = 0 /\ turn.actions_taken = <<>>
        /\ turn.final_response = turn.last_response

\* C16: a completion response whose capability call payload is malformed is
\* treated as requesting no calls: the turn does not raise, the gateway is not
\* invoked for it, and the raw text is the final answer.
C16_MalformedMeansNoCalls ==
    turn.last_response \in Payloads =>
        /\ turn.pc \in {"memorize", "memorize_store", "done"}
        /\ turn.final_response = "answer"
        /\ ex.pc = "idle"
        /\ turn.started = turn.asked

\* C17: no outcome of the memorize check fails the turn or changes its result:
\* from the memorize check on, process_message only goes on to its return, and
\* its text, actions_taken, relevant memories and the transcript stay as they
\* were.
C17_MemorizeNeverFails ==
    [][ turn.pc \in {"memorize", "memorize_store"} =>
           \/ turn' = turn
           \/ /\ turn'.pc \in {"memorize_store", "done"}
              /\ turn'.final_response = turn.final_response
              /\ turn'.actions_taken = turn.actions_taken
              /\ turn'.relevant_memories = turn.relevant_memories
              /\ turn'.error = "none"
              /\ conversation_history' = conversation_history ]_vars

\* A turn returned its answer although memory.store failed in the memorize
\* check, at its second INSERT.
C17_Witness ==
    /\ turn.pc = "done" /\ turn.memorize = "store_raises"
    /\ turn.final_response = "answer"
    /\ DOMAIN memories # DOMAIN memories_fts

\* C18: _initialized is set only by an initialize() that completed every step;
\* until then each process_message call raises the not-initialized error and
\* leaves the transcript, the memory store and the audit log as they were.
C18_NotInitialized ==
    [][ /\ (initialized' /\ ~initialized) =>
              /\ boot = "registry"
              /\ wired' = Components
        /\ (~initialized /\ turn.pc = "idle" /\ turn'.pc # "idle") =>
              /\ turn'.pc = "raised"
              /\ turn'.error = "not_initialized"
              /\ UNCHANGED <<conversation_history, memories, memories_fts,
                             audit_log, initialized>> ]_vars

\* initialize() failed at its last step, the memory store, the registry and the
\* executor being set; the second process_message call since was refused too.
C18_Witness ==
    /\ ~initialized /\ boot = "idle"
    /\ wired = {"memory", "tool_registry", "tool_executor"}
    /\ turns = 2
    /\ turn.pc = "raised" /\ turn.error = "not_initialized"

(***************************************************************************)
(* Properties of the audit log (SpecExec)                                  *)
(***************************************************************************)
\* C21: the audit log is append-only and in execution order: each step leaves
\* the log before it a prefix of the log after it, so no entry is changed or
\* removed, and a step that lengthens the log adds one entry, that of the
\* capability call being executed, behind the entries of the calls executed
\* before.
C21_AuditAppendOnly ==
    [][ /\ IsPrefix(audit_log, audit_log')
        /\ audit_log' # audit_log =>
              /\ ex.pc = "running" /\ ex'.pc = "returned"
              /\ Len(audit_log') = Len(audit_log) + 1
              /\ audit_log'[Len(audit_log')].tool = ex.tool
              /\ audit_log'[Len(audit_log')].user_id = ex.user ]_vars

\* Three executions of two users and two capabilities are logged.
C21_Witness ==
    /\ Len(audit_log) = 3
    /\ audit_log[1].user_id # audit_log[2].user_id
    /\ audit_log[2].tool # audit_log[3].tool

\* The n most recent entries of h, oldest first.
MostRecent(h, n) == SubSeq(h, Len(h) - Min(n, Len(h)) + 1, Len(h))

\* C22: for every limit N >= 0 and every audit log of length L,
\* get_audit_log(N) returns the min(N, L) most recent entries, oldest first,
\* and leaves the log unchanged.
C22_MostRecentEntries ==
    [][ (query_ret' # query_ret /\ query_ret'.op = "history") =>
            /\ Len(query_ret'.log) = Min(query_ret'.limit, Len(audit_log))
            /\ query_ret'.log = MostRecent(audit_log, query_ret'.limit)
            /\ audit_log' = audit_log ]_vars

(***************************************************************************)
(* Properties of MemoryStore under interleaved callers (SpecMem)           *)
(***************************************************************************)
\* The step is a search or a get_all that returns.
ReadStep ==
    /\ mem_calls' # mem_calls
    /\ mem_ret'.op \in {"search", "get_all"} /\ ~mem_ret'.raised
    /\ pending_store' = pending_store /\ pending_delete' = pending_delete

\* The records of a user in table memories.
RecordsOf(user_id) == {id \in DOMAIN memories : memories[id].user_id = user_id}

\* C23: a search whose trimmed query has fewer than 3 characters returns only
\* records of the given user: the min(limit, number of that user's records)
\* records with the greatest last-accessed time, ordered by last-accessed time
\* descending.
C23_ShortQueryMostRecent ==
    [][ (ReadStep /\ mem_ret'.op = "search" /\ mem_ret'.path = "recent") =>
            LET rows == mem_ret'.rows
                mine == RecordsOf(mem_ret'.user)
                ids  == {rows[i].id : i \in 1..Len(rows)} IN
            /\ Len(rows) = Min(mem_ret'.limit, Cardinality(mine))
            /\ Cardinality(ids) = Len(rows)
            /\ ids \subseteq mine
            /\ \A i \in 1..Len(rows) : rows[i] = row_to_memory(rows[i].id)
            /\ \A i, j \in 1..Len(rows) :
                  i < j => rows[i].accessed_at >= rows[j].accessed_at
            /\ \A id \in mine \ ids : \A i \in 1..Len(rows) :
                  memories[id].accessed_at <= rows[i].accessed_at ]_vars

\* A short query with limit 1 returned the later accessed of the user's two
\* records.
C23_Witness ==
    /\ mem_ret.op = "search" /\ mem_ret.path = "recent" /\ mem_ret.limit = 1
    /\ Len(mem_ret.rows) = 1
    /\ \E id \in RecordsOf(mem_ret.user) :
          memories[id].accessed_at < mem_ret.rows[1].accessed_at

\* The ids of the records that were stored and are no longer in table
\* memories: the deleted ones.
Gone == {id \in 1..(next_rowid - 1) : id \notin DOMAIN memories}

\* C24: delete(id) of a stored record removes it with its first statement, so
\* that the record is gone when delete completes, and it stays gone: no
\* get_all and no search, full-text or short-query, of any user returns a
\* deleted id, and store never gives a new record the id of a deleted one.
C24_DeletedStaysDeleted ==
    [][ /\ (pending_delete = 0 /\ pending_delete' \in DOMAIN stored_user) =>
              pending_delete' \in Gone'
        /\ Gone \subseteq Gone'
        /\ ReadStep =>
              \A i \in 1..Len(mem_ret'.rows) : mem_ret'.rows[i].id \notin Gone
        /\ pending_store' # pending_store /\ pending_store' # NoStore =>
              /\ pending_store'.id \notin Gone
              /\ pending_store'.id \notin DOMAIN stored_user ]_vars

\* Record 1 was deleted, and a later search or get_all of its user returned
\* without it.
C24_Witness ==
    /\ 1 \in Gone /\ pending_delete = 0
    /\ mem_ret.op \in {"search", "get_all"} /\ ~mem_ret.raised
    /\ mem_ret.user = stored_user[1]
    /\ 1 \notin DOMAIN memories_fts

\* C25: store is atomic with respect to every other memory operation: no
\* search and no get_all returns a record that is in table memories and not in
\* the text-search index, and after every completed operation the ids of the
\* table are the ids of the index.
C25_StoreAtomic ==
    [][ /\ ReadStep =>
              \A i \in 1..Len(mem_ret'.rows) :
                  mem_ret'.rows[i].id \in DOMAIN memories_fts
        /\ (pending_store' = NoStore /\ pending_delete' = 0) =>
              DOMAIN memories' = DOMAIN memories_fts' ]_vars

\* C26: from its creation to its deletion a record's access_count starts at 0
\* and never decreases, and its content, user_id, tags and created_at never
\* change; get_all changes no record.
C26_RecordsImmutable ==
    [][ /\ \A id \in DOMAIN memories \cap DOMAIN memories' :
              /\ memories'[id].access_count >= memories[id].access_count
              /\ memories'[id].content = memories[id].content
              /\ memories'[id].user_id = memories[id].user_id
              /\ memories'[id].tags = memories[id].tags
              /\ memories'[id].created_at = memories[id].created_at
        /\ \A id \in DOMAIN memories' \ DOMAIN memories :
              /\ memories'[id].access_count = 0
              /\ id \notin DOMAIN stored_user
        /\ (ReadStep /\ mem_ret'.op = "get_all") =>
              /\ memories' = memories
              /\ memories_fts' = memories_fts ]_vars

\* get_all returned a record that a full-text search had returned before.
C26_Witness ==
    /\ mem_ret.op = "get_all" /\ Len(mem_ret.rows) = 1
    /\ mem_ret.rows[1].access_count = 1
    /\ memories[mem_ret.rows[1].id].access_count = 1


(***************************************************************************)
(* SpecRegistry: ToolRegistry.discover_skills over a skills/ directory     *)
(***************************************************************************)
MaxSkillClasses == 4

\* ToolRegistry.__init__ (tool_registry.py:28-32).
RegistryNew ==
    /\ registry = << >>
    /\ tools = << >>
    /\ skills = << >>
    /\ loaded = <<>>

\* The classes discover_skills has registered so far.
Loaded == {loaded[i] : i \in 1..Len(loaded)}

\* One pass of the loop of discover_skills with ENABLED_SKILLS = all: the next
\* class the scan finds, in the order glob and getmembers yield them.
DiscoverSkill ==
    /\ Len(loaded) < MaxSkillClasses
    /\ \E c \in SkillClasses \ Loaded : register_skill(c)
    /\ UNCHANGED <<confirm_before_action, confirm_callback, audit_log, ex, mem_vars,
                   agent_vars, exec_calls, mem_calls, turns, events, boot_vars,
                   iface_vars, fs_call,
        ext_vars>>

\* initialize() has built the ToolRegistry and awaits discover_skills
\* (agent.py:79-81).
InitRegistry ==
    /\ RegistryNew
    /\ confirm_before_action = TRUE
    /\ confirm_callback = "none"
    /\ audit_log = <<>>
    /\ ex = ExIdle
    /\ exec_calls = 0
    /\ MemInit
    /\ conversation_history = <<>> /\ next_msg = 1 /\ turn = TurnIdle
    /\ turns = 0 /\ events = 0
    /\ initialized = FALSE /\ wired = {"memory", "tool_registry"}
    /\ boot = "registry" /\ boots = 1
    /\ max_context_tokens = 80000
    /\ IfaceInit /\ FilesInit /\ ExtInit

NextRegistry == DiscoverSkill

SpecRegistry == InitRegistry /\ [][NextRegistry]_vars

(***************************************************************************)
(* Properties of the registry (SpecRegistry)                               *)
(***************************************************************************)
\* C27: the registry rejects duplicate qualified names: registering a
\* capability or a skill whose name is already registered never replaces the
\* implementation registered under that name, nor its confirmation flag.
C27_NoReplacement ==
    [][ /\ \A n \in DOMAIN tools :
              /\ n \in DOMAIN tools' /\ tools'[n] = tools[n]
              /\ n \in DOMAIN registry'
              /\ registry'[n].confirm_required = registry[n].confirm_required
        /\ \A n \in DOMAIN skills :
              n \in DOMAIN skills' /\ skills'[n] = skills[n] ]_vars


(***************************************************************************)
(* SpecIface: one of the three adapters around an initialized agent: its   *)
(* users send turns and slash commands and answer its confirmation prompts *)
(***************************************************************************)
IfaceFrame == UNCHANGED <<exec_calls, mem_calls, turns, events, boot_vars,
                          interface, user_response, skill_vars, fs_call,
        ext_vars>>

\* The adapter's loop takes the next input when the turn before it is over
\* (cli_interfact.py:58-76).
BetweenTurns == turn.pc = "idle" /\ ex.pc = "idle"

\* The executor awaits the confirmation function the adapter wired
\* (tool_executor.py:121). Where the function prompts, the user answers; where
\* it does not, the user is not asked and does nothing.
IfaceConfirm ==
    /\ turn.pc = "executing"
    /\ \E response \in (IF interface_prompts(interface)
                        THEN UserResponses ELSE {"none"}) :
          /\ confirm_returns(IF interface_confirm(interface, response)
                             THEN "yes" ELSE "no")
          /\ user_response' = response
    /\ UNCHANGED <<mem_vars, agent_vars, exec_calls, mem_calls, turns, events,
                   boot_vars, interface, query_ret, skill_vars, fs_call,
        ext_vars>>

IfaceMemory ==
    /\ BetweenTurns
    /\ "memory" \in Commands(interface)
    /\ \E user_id \in Users : cmd_memory(user_id)
    /\ IfaceFrame

IfaceClear ==
    /\ BetweenTurns
    /\ "clear" \in Commands(interface)
    /\ cmd_clear
    /\ IfaceFrame

IfaceHistory ==
    /\ BetweenTurns
    /\ "history" \in Commands(interface)
    /\ cmd_history(history_limit(interface))
    /\ IfaceFrame

IfaceSkills ==
    /\ BetweenTurns
    /\ "skills" \in Commands(interface)
    /\ cmd_skills
    /\ IfaceFrame

\* main.py:84-99: the agent initialized, the adapter of Settings.interface
\* built, its confirmation function wired by its constructor; the files skill
\* enabled and CONFIRM_BEFORE_ACTION at its default.
InitIface ==
    /\ registry = discover_skills({"files"})
    /\ confirm_before_action = TRUE
    /\ confirm_callback = "wired"
    /\ audit_log = <<>>
    /\ ex = ExIdle
    /\ exec_calls = 0
    /\ MemInit
    /\ AgentInit
    /\ max_context_tokens = 80000
    /\ RegistryInit /\ FilesInit /\ ExtInit
    /\ interface \in Interfaces
    /\ user_response = "unset"
    /\ query_ret = NoQuery

NextIface ==
    \/ HostTurn \/ HostAnswer \/ HostCalls \/ HostTool \/ HostToolReturned
    \/ HostMemorize \/ HostMemorizeStored \/ HostEnd
    \/ IfaceConfirm \/ IfaceMemory \/ IfaceClear \/ IfaceHistory \/ IfaceSkills

SpecIface == InitIface /\ [][NextIface]_vars

(***************************************************************************)
(* Properties of the interface layer (SpecIface)                           *)
(***************************************************************************)
\* The step is one of the three listing commands.
ListingStep == IfaceMemory \/ IfaceHistory \/ IfaceSkills

\* The step leaves the memory records, the audit log and the registry as they
\* were.
CoreUnchanged ==
    /\ memories' = memories /\ memories_fts' = memories_fts
    /\ audit_log' = audit_log
    /\ registry' = registry /\ tools' = tools /\ skills' = skills

\* C28: listing the stored memories of a user, listing the recent audit
\* entries and listing the capabilities by provider are read-only: each leaves
\* the transcript, the memory records with their access statistics, the audit
\* log and the registry unchanged. Clearing the transcript leaves the
\* transcript empty and the memory records, the audit log and the registry
\* unchanged.
C28_QueriesReadOnly ==
    [][ /\ ListingStep =>
              CoreUnchanged /\ conversation_history' = conversation_history
        /\ IfaceClear => CoreUnchanged /\ conversation_history' = <<>> ]_vars

\* After a turn that ran a capability and stored a memory, the transcript was
\* cleared: it is empty, the audit entry and the memory are still there.
C28_Witness ==
    /\ query_ret.op = "clear"
    /\ conversation_history = <<>>
    /\ audit_log # <<>>
    /\ memories # << >>

\* C28 as stated: each of the four commands, clearing the transcript included,
\* leaves the transcript, the memory records, the audit log and the registry
\* unchanged.
C28_Original ==
    [][ (ListingStep \/ IfaceClear) =>
            CoreUnchanged /\ conversation_history' = conversation_history ]_vars

\* C29: under every adapter the confirmation function returns true only after
\* the user's explicit affirmative response to that prompt, so that a
\* capability that requires confirmation is never invoked without it.
C29_ConfirmFailSafe ==
    [][ (ex.pc = "confirming" /\ ex'.pc = "running") =>
            user_response' = "yes" ]_vars


(***************************************************************************)
(* SpecFiles: the completion backend calls the file operations of          *)
(* FilesSkill with path arguments of its choice                            *)
(***************************************************************************)
FilesOp ==
    /\ \E op \in FileOps, path \in PathArgs : file_op(op, path)
    /\ UNCHANGED <<exec_vars, mem_vars, agent_vars, exec_calls, mem_calls, turns,
                   events, boot_vars, iface_vars, skill_vars, ext_vars>>

InitFiles ==
    /\ registry = discover_skills({"files"})
    /\ confirm_before_action = TRUE
    /\ confirm_callback = "none"
    /\ audit_log = <<>>
    /\ ex = ExIdle
    /\ exec_calls = 0
    /\ MemInit
    /\ AgentInit
    /\ max_context_tokens = 80000
    /\ RegistryInit /\ IfaceInit /\ FilesInit /\ ExtInit

NextFiles == FilesOp

SpecFiles == InitFiles /\ [][NextFiles]_vars

(***************************************************************************)
(* Properties of FilesSkill (SpecFiles)                                    *)
(***************************************************************************)
\* The directory `dir` is `path` or an ancestor of it.
Within(path, dir) ==
    Len(dir) <= Len(path) /\ SubSeq(path, 1, Len(dir)) = dir

\* C30: every file operation acts only on a path inside the workspace
\* directory: for every path argument, _safe_path returns the workspace or a
\* descendant of it, or raises the access-denied error.
C30_ConfinedToWorkspace ==
    (fs_call.op # "none" /\ ~fs_call.denied) => Within(fs_call.target, workspace)


(***************************************************************************)
(* Properties of the audit log's length (SpecExec)                         *)
(***************************************************************************)
\* C37: the audit log grows by one entry exactly when a capability
\* implementation finishes, returning or raising, and an implementation runs
\* only for a registered name whose confirmation, where required, was given:
\* an execute call for an unknown name, or one whose confirmation was denied
\* or defaulted to deny, leaves the audit log unchanged.
C37_AuditCountsExecutions ==
    [][ /\ Len(audit_log') =
              Len(audit_log)
                + (IF ex.pc = "running" /\ ex'.pc = "returned" THEN 1 ELSE 0)
        /\ ex'.pc = "running" =>
              /\ ~is_unknown(ex'.tool)
              /\ ex'.confirmed # "false"
              /\ needs_confirmation(ex'.tool) => ex'.confirmed = "true"
        /\ (ex.pc \in {"idle", "confirming"} /\ ex'.pc = "returned") =>
              /\ audit_log' = audit_log
              /\ ~ex'.result.success ]_vars

\* After one execution was logged, a call was denied: the log still has the
\* one entry.
C37_Witness ==
    /\ ex.pc = "returned" /\ ex.confirmed = "false"
    /\ ex.result.cancelled = "true"
    /\ Len(audit_log) = 1


(***************************************************************************)
(* Properties of the tag filter of MemoryStore.search (SpecMem)            *)
(***************************************************************************)
\* The records of the user that match the terms and share a tag with `tags`.
TaggedMatches(terms, user_id, tags) ==
    {id \in fts_ids([terms |-> terms], user_id) : memories[id].tags \cap tags # {}}

\* C38: with tags supplied, a full-text search returns min(limit, k) records
\* among the k records of that user that match the query and share a tag with
\* the given tags, and the access statistics of the returned records, and of
\* no other, are updated.
C38_LimitAfterTagFilter ==
    [][ (ReadStep /\ mem_ret'.op = "search" /\ mem_ret'.path = "fts"
            /\ mem_ret'.tags # {}) =>
            LET rows == mem_ret'.rows
                ids  == {rows[i].id : i \in 1..Len(rows)}
                k    == TaggedMatches(mem_ret'.terms, mem_ret'.user, mem_ret'.tags) IN
            /\ ids \subseteq k
            /\ Len(rows) = Min(mem_ret'.limit, Cardinality(k))
            /\ \A id \in DOMAIN memories :
                  memories'[id] # memories[id] <=> id \in ids ]_vars


(***************************************************************************)
(* SpecTelegram: the handlers of TelegramInterface, with and without an    *)
(* allowlist, for updates of users on it and off it                        *)
(***************************************************************************)
\* TelegramInterface._is_allowed (telegram_interface.py:59-63).
is_allowed(user_id) ==
    IF allowed_users = {} THEN TRUE ELSE user_id \in allowed_users

\* _handle_message (telegram_interface.py:65-94) up to the first suspension of
\* process_message: a sender that is not allowed gets the refusal and nothing
\* else happens.
tg_message(sender, request, now) ==
    IF ~is_allowed(sender)
    THEN /\ tg' = [NoUpdate EXCEPT !.handler = "message", !.sender = sender,
                                   !.reply = "not_authorized"]
         /\ UNCHANGED <<exec_vars, mem_vars, agent_vars>>
    ELSE /\ pm_start([request EXCEPT !.user_id = sender], now)
         /\ tg' = [NoUpdate EXCEPT !.handler = "message", !.sender = sender,
                                   !.reply = "pending"]

\* _cmd_help (telegram_interface.py:131-142): the names of the loaded skills.
tg_help(sender) ==
    /\ tg' = [NoUpdate EXCEPT !.handler = "help", !.sender = sender,
                              !.reply = "help", !.skills = DOMAIN skills]
    /\ UNCHANGED <<exec_vars, mem_vars, agent_vars>>

\* _cmd_memory (telegram_interface.py:144-154): memory.get_all of the sender.
tg_memory(sender) ==
    /\ get_all(sender)
    /\ tg' = [NoUpdate EXCEPT !.handler = "memory", !.sender = sender,
                              !.reply = "memory", !.rows = mem_ret'.rows]
    /\ UNCHANGED <<exec_vars, agent_vars>>

\* _cmd_history (telegram_interface.py:156-166): the audit entries of every user.
tg_history(sender) ==
    /\ tg' = [NoUpdate EXCEPT !.handler = "history", !.sender = sender,
                              !.reply = "history",
                              !.log = get_audit_log(history_limit("telegram"))]
    /\ UNCHANGED <<exec_vars, mem_vars, agent_vars>>

TgFrame == UNCHANGED <<exec_calls, mem_calls, events, boot_vars, iface_vars,
                       skill_vars, fs_call, sent, owners, turn_b, allowed_users,
                       startup, session>>

TgMessage ==
    /\ BetweenTurns
    /\ turns < MaxHostTurns
    /\ \E sender \in Users, request \in HostRequests :
          tg_message(sender, request, Tick)
    /\ turns' = turns + 1
    /\ TgFrame

TgHelp ==
    /\ BetweenTurns
    /\ \E sender \in Users : tg_help(sender)
    /\ UNCHANGED turns
    /\ TgFrame

TgMemory ==
    /\ BetweenTurns
    /\ \E sender \in Users : tg_memory(sender)
    /\ UNCHANGED turns
    /\ TgFrame

TgHistory ==
    /\ BetweenTurns
    /\ \E sender \in Users : tg_history(sender)
    /\ UNCHANGED turns
    /\ TgFrame

\* main.py:84-99 with INTERFACE=telegram: TELEGRAM_ALLOWED_USERS empty or
\* naming alice.
InitTelegram ==
    /\ registry = discover_skills({"files"})
    /\ confirm_before_action = TRUE
    /\ confirm_callback = "wired"
    /\ audit_log = <<>>
    /\ ex = ExIdle
    /\ exec_calls = 0
    /\ MemInit
    /\ AgentInit
    /\ max_context_tokens = 80000
    /\ RegistryInit /\ FilesInit
    /\ interface = "telegram"
    /\ user_response = "unset"
    /\ query_ret = NoQuery
    /\ sent = <<>> /\ owners = << >> /\ turn_b = IdleB
    /\ allowed_users \in {{}, {"alice"}}
    /\ tg = NoUpdate
    /\ startup = NoStartup
    /\ session = Running

NextTelegram ==
    \/ TgMessage \/ TgHelp \/ TgMemory \/ TgHistory
    \/ HostAnswer \/ HostCalls \/ HostTool \/ HostToolReturned
    \/ HostMemorize \/ HostMemorizeStored \/ HostEnd \/ IfaceConfirm

SpecTelegram == InitTelegram /\ [][NextTelegram]_vars

(***************************************************************************)
(* Properties of the Telegram allowlist (SpecTelegram)                     *)
(***************************************************************************)
\* C31: with a non-empty allowlist, every handler answers an update of a user
\* who is not on it with the not-authorized message or with nothing: such a
\* user triggers no agent operation and reads no agent state.
C31_AllowlistOnEveryHandler ==
    (tg.handler # "none" /\ allowed_users # {} /\ tg.sender \notin allowed_users) =>
        /\ tg.reply \in {"not_authorized", "none"}
        /\ tg.log = <<>> /\ tg.skills = {} /\ tg.rows = <<>>


(***************************************************************************)
(* SpecStartup: main() from the loaded Settings to the adapter's loop      *)
(***************************************************************************)
\* LLM_PROVIDER: two providers that need a key, one that needs none.
Providers == {"claude", "openai", "ollama"}

\* Settings.validate (settings.py:53-73): TRUE where it returns, FALSE where
\* it raises ValueError.
validate(st, iface) ==
    /\ ~(st.llm_provider \in {"claude", "openai", "deepseek"} /\ ~st.api_key)
    /\ ~(iface = "telegram" /\ ~st.token)
    /\ ~(iface = "discord" /\ ~st.token)

\* MAXAgent._build_llm_client (agent.py:97-124): the client's constructor is
\* given the key as it is, an empty one included; whether the library then
\* raises is the library's.
build_llm_client(st) ==
    IF st.llm_provider \notin {"claude", "openai", "deepseek", "ollama"}
    THEN {"raises"}
    ELSE IF st.api_key \/ st.llm_provider = "ollama" THEN {"returns"}
    ELSE {"returns", "raises"}

\* interface.start() up to its loop (cli_interfact.py:58-60,
\* telegram_interface.py:41-44, discord_interface.py:144-148).
start_interface(st, iface) ==
    IF iface \in {"telegram", "discord"} /\ ~st.token THEN "failed" ELSE "serving"

StartupFrame == UNCHANGED <<mem_vars, agent_vars, exec_calls, mem_calls, turns, events,
                            iface_vars, skill_vars, fs_call, sent, owners, turn_b,
                            allowed_users, tg, session>>

\* main.py:84-85: agent.initialize() is awaited; nothing before it reads the
\* Settings.
StartupInitialize ==
    /\ startup.pc = "loaded"
    /\ initialize_begin
    /\ boots' = boots + 1
    /\ startup' = [startup EXCEPT !.pc = "initializing"]
    /\ UNCHANGED exec_vars
    /\ StartupFrame

StartupInitMemory ==
    /\ startup.pc = "initializing"
    /\ \E outcome \in {"returns", "raises"} :
          /\ initialize_memory(outcome)
          /\ startup' = [startup EXCEPT
                            !.pc = IF outcome = "raises" THEN "failed" ELSE @]
    /\ UNCHANGED <<exec_vars, boots>>
    /\ StartupFrame

StartupInitRegistry ==
    /\ startup.pc = "initializing"
    /\ \E llm_outcome \in build_llm_client(startup) :
          /\ initialize_registry(llm_outcome)
          /\ startup' = [startup EXCEPT
                            !.pc = IF llm_outcome = "raises" THEN "failed"
                                   ELSE "initialized"]
    /\ UNCHANGED <<exec_vars, boots>>
    /\ StartupFrame

\* main.py:99: the adapter is built; its constructor wires the confirmation
\* function.
StartupBuild ==
    /\ startup.pc = "initialized"
    /\ set_confirm_callback
    /\ startup' = [startup EXCEPT !.pc = "built"]
    /\ UNCHANGED boot_vars
    /\ StartupFrame

\* main.py:101-102.
StartupStart ==
    /\ startup.pc = "built"
    /\ startup' = [startup EXCEPT !.pc = start_interface(startup, interface)]
    /\ UNCHANGED <<exec_vars, boot_vars>>
    /\ StartupFrame

\* The adapter's loop passes a message to process_message.
StartupTurn ==
    /\ startup.pc = "serving"
    /\ HostTurn

\* main.py:73-79: the Settings read from the environment, whatever it holds.
InitStartup ==
    /\ registry = discover_skills({"files"})
    /\ confirm_before_action = TRUE
    /\ confirm_callback = "none"
    /\ audit_log = <<>>
    /\ ex = ExIdle
    /\ exec_calls = 0
    /\ MemInit
    /\ AgentNew
    /\ max_context_tokens = 80000
    /\ RegistryInit /\ FilesInit
    /\ interface \in Interfaces
    /\ user_response = "unset"
    /\ query_ret = NoQuery
    /\ sent = <<>> /\ owners = << >> /\ turn_b = IdleB
    /\ allowed_users = {}
    /\ tg = NoUpdate
    /\ \E provider \in Providers, api_key \in BOOLEAN, token \in BOOLEAN :
          startup = [NoStartup EXCEPT !.pc = "loaded", !.llm_provider = provider,
                                      !.api_key = api_key, !.token = token]
    /\ session = Running

NextStartup ==
    \/ StartupInitialize \/ StartupInitMemory \/ StartupInitRegistry
    \/ StartupBuild \/ StartupStart \/ StartupTurn
    \/ HostAnswer \/ HostLlmRaises \/ HostMemorize \/ HostEnd

SpecStartup == InitStartup /\ [][NextStartup]_vars

(***************************************************************************)
(* Properties of startup (SpecStartup)                                     *)
(***************************************************************************)
\* C40: when required configuration is missing, as Settings.validate defines
\* it, startup fails before the agent is initialized and before any turn is
\* processed.
C40_FailsBeforeInitialize ==
    ~validate(startup, interface) =>
        /\ ~initialized
        /\ startup.pc # "serving"
        /\ turns = 0


(***************************************************************************)
(* SpecWindow: one long turn, the completion backend requesting            *)
(* capability calls in each of its responses                               *)
(***************************************************************************)
\* The slice of agent.py:283.
HISTORY_WINDOW == 40

\* One Message in the form the completion API takes (agent.py:284-287): a
\* tool_result entry becomes a user message behind the prefix "[Tool Result]: ".
api_message(msg) ==
    IF msg.role = "tool_result"
    THEN [role |-> "user", prefix |-> "[Tool Result]: ", id |-> msg.id]
    ELSE [role |-> msg.role, prefix |-> "", id |-> msg.id]

\* A transcript, entry by entry, in the form the completion API takes.
to_messages(h) == [i \in 1..Len(h) |-> api_message(h[i])]

\* MAXAgent._history_to_messages (agent.py:280-288).
history_to_messages(h) == to_messages(LastN(h, HISTORY_WINDOW))

\* _call_llm begins with _history_to_messages (agent.py:232): where the step
\* ends in a completion call, `sent` is what it was given.
Sends ==
    sent' = IF turn'.pc = "llm" THEN history_to_messages(conversation_history')
            ELSE sent

WindowFrame == UNCHANGED <<exec_calls, mem_calls, events, boot_vars, iface_vars,
                           skill_vars, fs_call, owners, turn_b, allowed_users, tg,
                           startup, session>>

\* The capability calls of one response: one read, or three.
WindowCallLists ==
    { PlainCalls, <<"files__read_file", "files__read_file", "files__read_file">> }

WindowTurn ==
    /\ turns = 0
    /\ \E request \in HostRequests : pm_start(request, Tick)
    /\ turns' = turns + 1
    /\ Sends
    /\ WindowFrame

WindowCalls ==
    /\ \E calls \in WindowCallLists : pm_llm_requests(calls)
    /\ UNCHANGED turns
    /\ Sends
    /\ WindowFrame

WindowTool ==
    /\ turn.pc = "executing"
    /\ tool_returns("returns", Text("done"))
    /\ UNCHANGED <<mem_vars, agent_vars, turns>>
    /\ Sends
    /\ WindowFrame

WindowToolReturned ==
    /\ pm_tool_returned
    /\ UNCHANGED turns
    /\ Sends
    /\ WindowFrame

WindowAnswer ==
    /\ pm_llm_answers("answer")
    /\ UNCHANGED turns
    /\ Sends
    /\ WindowFrame

InitWindow ==
    /\ registry = discover_skills({"files"})
    /\ confirm_before_action = TRUE
    /\ confirm_callback = "wired"
    /\ audit_log = <<>>
    /\ ex = ExIdle
    /\ exec_calls = 0
    /\ MemInit
    /\ AgentInit
    /\ max_context_tokens = 80000
    /\ RegistryInit /\ IfaceInit /\ FilesInit /\ ExtInit

NextWindow ==
    WindowTurn \/ WindowCalls \/ WindowTool \/ WindowToolReturned \/ WindowAnswer

SpecWindow == InitWindow /\ [][NextWindow]_vars

(***************************************************************************)
(* Properties of the messages of a completion call (SpecWindow)            *)
(***************************************************************************)
\* C34: every completion call of the reasoning loop is given the entire
\* current transcript, in order, whatever the transcript's length.
C34_WholeTranscriptSent ==
    turn.pc = "llm" => sent = to_messages(conversation_history)


(***************************************************************************)
(* Properties of a completed turn (SpecAgent)                              *)
(***************************************************************************)
\* The turn in flight has returned and did not compact.
CompletedPlain == turn.pc = "done" /\ turn.compact = "none"

\* C35: a turn that completes without compaction and with k gateway
\* invocations leaves the transcript it found followed by 2k+2 entries: the
\* user message, then for each invocation in execution order its call entry
\* immediately followed by its result entry, then the final assistant answer;
\* actions_taken holds the k invocations in the same order, the failed, the
\* unknown and the cancelled ones included.
C35_TurnGrowsTranscript ==
    CompletedPlain =>
        LET h == conversation_history
            p == Len(turn.prior)
            k == turn.started IN
        /\ Len(h) = p + 2 * k + 2
        /\ SubSeq(h, 1, p) = turn.prior
        /\ h[p + 1].role = "user" /\ h[p + 1].id = turn.msg0
        /\ Len(turn.actions_taken) = k
        /\ \A i \in 1..k :
              LET c == h[p + 2 * i]
                  r == h[p + 2 * i + 1] IN
              /\ c.role = "assistant" /\ c.kind = "tool_call"
              /\ c.call = turn.actions_taken[i]
              /\ r.role = "tool_result" /\ r.kind = "tool_result"
              /\ r.result.tool_name = turn.actions_taken[i]
        /\ h[Len(h)].role = "assistant"
        /\ h[Len(h)].kind \in {"answer", "apology"}

\* A turn returned after an unknown call and a cancelled one.
C35_Witness ==
    /\ CompletedPlain
    /\ turn.actions_taken = <<"files__nope", "files__delete_file">>
    /\ turn.denied = 1


(***************************************************************************)
(* Properties of the turn's final answer (SpecHost)                        *)
(***************************************************************************)
\* C36: process_message returns the apology only if the iteration cap was
\* exhausted, each of MAX_ITERATIONS completion responses having requested
\* capability calls; when a completion response requests no capability calls,
\* the empty text included, that text is what process_message returns and
\* appends to the transcript.
C36_ApologyOnlyAtCap ==
    turn.pc \in {"memorize", "memorize_store", "done"} =>
        /\ turn.final_response = "apology" =>
              /\ turn.iterations = MAX_ITERATIONS
              /\ turn.requested = MAX_ITERATIONS
        /\ turn.last_response \in {"answer", "empty"} =>
              /\ turn.final_response = turn.last_response
              /\ conversation_history[Len(conversation_history)].kind
                    = turn.last_response


(***************************************************************************)
(* SpecSession: an adapter passes turns to process_message and handles     *)
(* what it returns or raises                                               *)
(***************************************************************************)
\* What the adapter does with a process_message that returned: it replies the
\* answer (cli_interfact.py:93-110, telegram_interface.py:85-90,
\* discord_interface.py:122-127).
on_returned(iface) == [running |-> TRUE, reply |-> "answer"]

\* What the adapter does with a process_message that raised. Telegram and
\* Discord catch the exception and reply its text (telegram_interface.py:92-94,
\* discord_interface.py:129-131). _process_and_display has no try and the loop
\* of start() catches around _get_input only (cli_interfact.py:62-91): the
\* exception leaves start() and main() (main.py:101-107).
on_raised(iface) ==
    IF iface = "cli" THEN [running |-> FALSE, reply |-> "none"]
    ELSE [running |-> TRUE, reply |-> "error"]

SessionFrame == UNCHANGED <<exec_calls, mem_calls, events, boot_vars, iface_vars,
                            skill_vars, fs_call, sent, owners, turn_b, allowed_users,
                            tg, startup>>

SessionTurn ==
    /\ session.running
    /\ HostTurn

\* process_message returns or raises to the adapter.
SessionEnd ==
    /\ session' = IF turn.pc = "raised" THEN on_raised(interface)
                  ELSE on_returned(interface)
    /\ pm_end
    /\ UNCHANGED turns
    /\ SessionFrame

\* The adapter built around the initialized agent, as in SpecIface.
InitSession == InitIface

NextSession ==
    \/ SessionTurn \/ SessionEnd
    \/ HostAnswer \/ HostCalls \/ HostLlmRaises \/ HostTool \/ HostToolReturned
    \/ HostMemorize \/ HostMemorizeStored \/ IfaceConfirm

SpecSession == InitSession /\ [][NextSession]_vars

(***************************************************************************)
(* Properties of a failed completion call (SpecSession)                    *)
(***************************************************************************)
\* The last entry of a transcript is an assistant's answer.
EndsInAnswer(h) ==
    h # <<>> => h[Len(h)].role = "assistant" /\ h[Len(h)].kind # "tool_call"

\* C39: when a completion call of the reasoning loop fails during a turn, the
\* failure is surfaced to the user as the turn's answer text, the session keeps
\* running under every adapter, and the transcript is not left ending in a
\* user entry or a capability result entry without an assistant answer.
C39_FailureSurfaced ==
    [][ (turn.pc = "raised" /\ turn.error = "llm" /\ turn'.pc = "idle") =>
            /\ session'.running
            /\ session'.reply = "error"
            /\ EndsInAnswer(conversation_history') ]_vars

(***************************************************************************)
(* SpecShared: the turns of two users on the one agent main() builds, the  *)
(* second process_message entered while the first is suspended             *)
(***************************************************************************)
MaxSharedTurns == 2   \* process_message() calls that run to their end (SpecShared)
MaxSharedCalls == 2   \* completion responses that request capability calls (SpecShared)

\* The messages of the two users.
SharedRequests ==
    { [user_id |-> u, chars |-> 3,
       query |-> [len |-> 3, terms |-> {"tea"}, valid |-> TRUE]] : u \in Users }

\* MAXAgent.__init__ creates one conversation_history (agent.py:61-68) and
\* process_message appends to it whatever the user_id (agent.py:157-159): the
\* entries a step appends belong to the user whose turn appended them.
Owns(user_id) ==
    owners' = [id \in 1..(next_msg' - 1) |->
                  IF id \in DOMAIN owners THEN owners[id] ELSE user_id]

\* A second process_message is called while the first awaits a completion
\* (discord_interface.py:114-131 and telegram_interface.py:65-94 are handlers of
\* one event loop): it runs to its own first completion call
\* (agent.py:141-175 and 304-323).
second_start(request, now) ==
    /\ turn_b.pc = "idle"
    /\ ~not_initialized
    /\ search(request.query, request.user_id, 5, {}, now)
    /\ IF mem_ret'.raised
       THEN /\ turn_b' = [IdleB EXCEPT !.pc = "raised", !.user_id = request.user_id]
            /\ UNCHANGED <<conversation_history, next_msg>>
       ELSE LET h1 == Append(conversation_history,
                             Msg("user", "user", request.chars, next_msg)) IN
            /\ conversation_history' = h1
            /\ next_msg' = next_msg + 1
            /\ turn_b' = IF should_compact(h1) /\ ~compact_returns_early(h1)
                         THEN [IdleB EXCEPT !.pc = "summarize",
                                            !.user_id = request.user_id,
                                            !.old_messages = old_of(h1),
                                            !.recent_messages = recent_of(h1),
                                            !.compacted = TRUE]
                         ELSE [IdleB EXCEPT !.pc = "llm",
                                            !.user_id = request.user_id]
    /\ UNCHANGED <<max_context_tokens, turn, exec_vars>>

\* The _call_llm_simple of the second turn's _compact_context raises
\* (agent.py:323): its process_message raises.
second_summary_raises ==
    /\ turn_b.pc = "summarize"
    /\ turn_b' = [turn_b EXCEPT !.pc = "raised"]
    /\ UNCHANGED <<agent_vars, exec_vars, mem_vars>>

\* The second turn's completion returns a final answer (agent.py:175-183 and
\* 212-221): the answer is appended and _maybe_memorize is entered.
second_llm_answers ==
    /\ turn_b.pc = "llm"
    /\ conversation_history' =
           Append(conversation_history,
                  Msg("assistant", "answer", content_chars("answer"), next_msg))
    /\ next_msg' = next_msg + 1
    /\ turn_b' = [turn_b EXCEPT !.pc = "memorize"]
    /\ UNCHANGED <<max_context_tokens, turn, exec_vars, mem_vars>>

\* The second turn's completion raises (agent.py:175 is in no try).
second_llm_raises ==
    /\ turn_b.pc = "llm"
    /\ turn_b' = [turn_b EXCEPT !.pc = "raised"]
    /\ UNCHANGED <<agent_vars, exec_vars, mem_vars>>

\* The second turn's memorize check stores nothing (agent.py:368-379).
second_memorize_returns ==
    /\ turn_b.pc = "memorize"
    /\ turn_b' = [turn_b EXCEPT !.pc = "done"]
    /\ UNCHANGED <<agent_vars, exec_vars, mem_vars>>

\* The second turn's caller takes the AgentResponse (or the exception).
second_end ==
    /\ turn_b.pc \in {"done", "raised"}
    /\ turn_b' = [turn_b EXCEPT !.pc = "ended"]
    /\ UNCHANGED <<agent_vars, exec_vars, mem_vars>>

SharedFrame == UNCHANGED <<exec_calls, mem_calls, boot_vars, iface_vars, skill_vars,
                           fs_call, allowed_users, tg, startup, session>>

\* A step of the first turn: what its completion call is given and whose the
\* entries it appends are.
FirstTurnStep ==
    /\ Sends
    /\ Owns(turn'.request.user_id)
    /\ UNCHANGED turn_b
    /\ SharedFrame

\* A step of the second turn.
SecondTurnStep ==
    /\ Owns(turn_b'.user_id)
    /\ UNCHANGED <<sent, turns, events>>
    /\ SharedFrame

SharedTurn ==
    /\ turns < MaxSharedTurns
    /\ \E request \in SharedRequests : pm_start(request, Tick)
    /\ turns' = turns + 1
    /\ UNCHANGED events
    /\ FirstTurnStep

SharedCalls ==
    /\ events < MaxSharedCalls
    /\ pm_llm_requests(<<"files__read_file", "files__read_file", "files__read_file">>)
    /\ events' = events + 1
    /\ UNCHANGED turns
    /\ FirstTurnStep

SharedTool ==
    /\ turn.pc = "executing"
    /\ tool_returns("returns", Text("done"))
    /\ UNCHANGED <<mem_vars, agent_vars, turns, events>>
    /\ FirstTurnStep

SharedToolReturned ==
    /\ pm_tool_returned
    /\ UNCHANGED <<turns, events>>
    /\ FirstTurnStep

SharedAnswer ==
    /\ pm_llm_answers("answer")
    /\ UNCHANGED <<turns, events>>
    /\ FirstTurnStep

SharedSummary ==
    /\ pm_summary_returns({"tea"}, Tick)
    /\ UNCHANGED <<turns, events>>
    /\ FirstTurnStep

SharedCompactStored ==
    /\ pm_compact_stored
    /\ UNCHANGED <<turns, events>>
    /\ FirstTurnStep

SharedMemorize ==
    /\ pm_memorize_returns("no", {"tea"}, {"pref"}, Tick)
    /\ UNCHANGED <<turns, events>>
    /\ FirstTurnStep

SharedEnd ==
    /\ pm_end
    /\ UNCHANGED <<turns, events, sent, owners, turn_b>>
    /\ SharedFrame

\* The second message arrives while the first turn awaits a completion.
SecondTurn ==
    /\ turn.pc \in {"summarize", "llm"}
    /\ \E request \in SharedRequests : second_start(request, Tick)
    /\ SecondTurnStep

SecondSummaryRaises == second_summary_raises /\ SecondTurnStep

SecondAnswer == second_llm_answers /\ SecondTurnStep

SecondLlmRaises == second_llm_raises /\ SecondTurnStep

SecondMemorize == second_memorize_returns /\ SecondTurnStep

SecondEnd == second_end /\ SecondTurnStep

\* The initialized agent with a context window of one token, under which
\* _should_compact answers true from the second entry on.
InitShared ==
    /\ registry = discover_skills({"files"})
    /\ confirm_before_action = TRUE
    /\ confirm_callback = "wired"
    /\ audit_log = <<>>
    /\ ex = ExIdle
    /\ exec_calls = 0
    /\ MemInit
    /\ AgentInit
    /\ max_context_tokens = 1
    /\ RegistryInit /\ IfaceInit /\ FilesInit /\ ExtInit

NextShared ==
    \/ SharedTurn \/ SharedCalls \/ SharedTool \/ SharedToolReturned
    \/ SharedAnswer \/ SharedSummary \/ SharedCompactStored \/ SharedMemorize
    \/ SharedEnd
    \/ SecondTurn \/ SecondSummaryRaises \/ SecondAnswer \/ SecondLlmRaises
    \/ SecondMemorize \/ SecondEnd

SpecShared == InitShared /\ [][NextShared]_vars

(***************************************************************************)
(* Properties of the transcript under two users' turns (SpecShared)        *)
(***************************************************************************)
\* C32: a transcript is owned by one user's session: no entry appended during
\* a turn for one user is among the messages given to a completion call, or
\* among the messages summarized into a memory record, in a turn for another
\* user.
C32_TranscriptOwnedByOneUser ==
    /\ turn.pc = "llm" =>
           \A i \in 1..Len(sent) : owners[sent[i].id] = turn.request.user_id
    /\ turn.pc = "summarize" =>
           \A i \in 1..Len(turn.old_messages) :
               owners[turn.old_messages[i].id] = turn.request.user_id

\* The identities of the entries of a transcript.
Ids(h) == { h[i].id : i \in 1..Len(h) }

\* C33: compaction loses no entry, a concurrent turn or not: every entry of
\* the transcript at the moment compaction replaces it is in the new transcript
\* or was among the messages that were summarized.
C33_CompactionKeepsEntries ==
    [][ (turn.pc = "summarize" /\ turn'.pc = "compact_store") =>
            Ids(conversation_history) \subseteq
                Ids(conversation_history') \cup Ids(turn.old_messages) ]_vars

=============================================================================
